---- MODULE Spec2Model ----
(***************************************************************************)
(* A model of the pfun effect interpreter (pfun/effect.pyx): effect nodes, *)
(* the trampolined do/resume/apply_continuation walk, Resource, Memoize,   *)
(* ensure, sequence and sequence_async, run on an asyncio event loop on    *)
(* which tasks interleave only where an await really suspends.             *)
(***************************************************************************)
EXTENDS Integers, Sequences, FiniteSets, TLC

VARIABLES
    scenario,   \* the composed effects handed to run(), one per run invocation
    runIdx,     \* index of the run invocation in progress
    tasks,      \* asyncio tasks: the main coroutine and the children of gather
    current,    \* the task that holds the event loop, 0 when the loop is idle
    resource,   \* Resource.resource of every Resource object
    memo,       \* Memoize.result of every Memoize node
    exitStack,  \* the AsyncExitStack of the run in progress
    nextHandle, \* number of context managers the resource factory has made
    refValue,   \* Ref.value
    refLock,    \* holder of the Ref's asyncio.Lock, 0 when free
    heap,       \* the mutable Python objects (lists, dicts) made so far
    env,        \* the executors of the RuntimeEnv of the run in progress
    pools,      \* every executor made so far: its kind, its run, open or shut
    outcomes,   \* what each finished run invocation returned or raised
    log         \* observable events, in the order they happened

vars == <<scenario, runIdx, tasks, current, resource, memo, exitStack,
          nextHandle, refValue, refLock, heap, env, pools, outcomes, log>>

-----------------------------------------------------------------------------
(* Bounds of the model *)

MaxLen == 3        \* longest list handed to sequence / sequence_async
NumGets == 2       \* resource.get() effects composed in one run
NumEvals == 2      \* evaluations of one Memoize node in one run
NumModify == 2     \* concurrent ref.modify effects
MaxChain == 4      \* links of a left-nested chain of and_then or map
MaxN == 5          \* largest argument of the trampolined factorial
MaxItems == 2      \* longest List, and the number of distinct elements
MaxArgs == 3       \* most arguments given to Intersection
NumDispatch == 2   \* leaves of one run that may be bound to a pool
MaxTasks == MaxLen + 1   \* the main task and the children of one gather

-----------------------------------------------------------------------------
(* Python values *)

NoneV == [v |-> "None"]
IntV(n) == [v |-> "int", n |-> n]
Tuple(s) == [v |-> "tuple", items |-> s]
Handle(h) == [v |-> "handle", n |-> h]
Exc(name) == [v |-> "exc", name |-> name]
Right(x) == [v |-> "Right", get |-> x]
Left(x) == [v |-> "Left", get |-> x]
Str(name) == [v |-> "str", name |-> name]
Just(x) == [v |-> "Just", get |-> x]
Nothing == [v |-> "Nothing"]
\* a reference to the object at heap[id]
Object(id) == [v |-> "object", n |-> id]
\* a Python list, as it lies in the heap
NativeList(items) == [v |-> "list", items |-> items]

-----------------------------------------------------------------------------
(* Effect nodes *)

NoEffect == [t |-> "None"]
CSuccess(result) == [t |-> "CSuccess", result |-> result]
Error(reason) == [t |-> "Error", reason |-> reason]
Call(thunk) == [t |-> "Call", thunk |-> thunk]
WithRepr(effect) == [t |-> "WithRepr", effect |-> effect]
Recover(effect, f) == [t |-> "Recover", effect |-> effect, continuation |-> f]
Memoize(name, effect) == [t |-> "Memoize", name |-> name, effect |-> effect]
ResourceGet(name) == [t |-> "ResourceGet", name |-> name]
Sequence(effects) == [t |-> "Sequence", effects |-> effects]
SequenceAsync(effects) == [t |-> "SequenceAsync", effects |-> effects]
FromCallable(fn) == [t |-> "FromCallable", fn |-> fn, pool |-> "none"]
Catch(exceptions, fn) ==
    [t |-> "Catch", exceptions |-> exceptions, fn |-> fn, pool |-> "none"]
\* FromIOBoundCallable, FromCPUBoundCallable, CatchIOBound, CatchCPUBound:
\* the subclasses whose call_f runs f in the thread or the process pool
Pooled(effect, pool) == [effect EXCEPT !.pool = pool]
Either(effect) == [t |-> "Either", effect |-> effect]
Map(effect, f) == [t |-> "Map", effect |-> effect, continuation |-> f]
RefModify(name) == [t |-> "RefModify", name |-> name]
\* from_awaitable(awaitable), for an awaitable that resolves to the value
FromAwaitable(awaitable) == [t |-> "FromAwaitable", awaitable |-> awaitable]
RefTryModify(name, fn) == [t |-> "RefTryModify", name |-> name, fn |-> fn]

is_done(effect) == effect.t \in {"CSuccess", "Error"}

\* a variant of AndThen.c_and_then that forgets the continuation the node has
c_and_thenDropsInner(self, f) ==
    IF self.t = "AndThen"
    THEN [t |-> "AndThen", effect |-> self.effect, continuation |-> f]
    ELSE [t |-> "AndThen", effect |-> self, continuation |-> f]

\* CEffect.c_and_then and its override AndThen.c_and_then: the closure g
\* that composes the two continuations is the record "g".
c_and_then(self, f) ==
    IF self.t = "AndThen"
    THEN [t |-> "AndThen", effect |-> self.effect,
          continuation |-> [k |-> "g", continuation |-> self.continuation, f |-> f]]
    ELSE [t |-> "AndThen", effect |-> self, continuation |-> f]

AsyncWrapper(f) == [k |-> "AsyncWrapper", f |-> f]

and_then(self, f) == c_and_then(self, AsyncWrapper(f))

discard_and_then(self, effect) ==
    WithRepr(c_and_then(self, [k |-> "discard", effect |-> effect]))

recover(self, f) == Recover(self, f)

either(self) == Either(self)

map(self, f) == Map(self, f)

absolve(effect) == WithRepr(and_then(effect, [k |-> "absolve"]))

\* c_combine(es, e) of the older effect.pyx: AndThen(es, f), where f(xs) is
\* AndThen(e, g) and g(x) appends x to xs and returns Success(xs)
c_combine(es, e) ==
    [t |-> "AndThen", effect |-> es, continuation |-> [k |-> "combine_f", effect |-> e]]

RECURSIVE Combined(_, _)
Combined(result, effects) ==
    IF effects = <<>> THEN result
    ELSE Combined(c_combine(result, Head(effects)), Tail(effects))

\* sequence(effects) of the older effect.pyx, xs being the list that
\* Success([]) holds: result = c_combine(result, effect) for every effect,
\* then result.map(tuple), which is result.c_and_then(g)
sequence(effects, xs) == c_and_then(Combined(CSuccess(xs), effects), [k |-> "map_tuple"])

ensure(self, effect) ==
    WithRepr(Recover(and_then(self, [k |-> "ensure_value", effect |-> effect]),
                     [k |-> "ensure_reason", effect |-> effect]))

-----------------------------------------------------------------------------
(* User functions. A function is described by what it does when called:    *)
(* out says how it ends, async whether it awaits real I/O before ending.   *)

Fn(name, out, val, async) == [name |-> name, out |-> out, val |-> val, async |-> async]

\* lambda v: success(v + 1), lambda v: error(x), a function that raises,
\* and lambda _: effect, as continuations
UserK(name, out, val) == [k |-> "user", name |-> name, out |-> out, val |-> val, effect |-> NoEffect]
ConstK(name, effect) == [k |-> "user", name |-> name, out |-> "effect", val |-> NoneV, effect |-> effect]

Inc(v) == IF v.v = "int" THEN IntV(v.n + 1) ELSE v

Returned(effect) == [raised |-> FALSE, exc |-> NoneV, effect |-> effect]
Raised(exc) == [raised |-> TRUE, exc |-> exc, effect |-> NoEffect]

UserCall(f, v) ==
    CASE f.out = "success_inc" -> Returned(CSuccess(Inc(v)))
      [] f.out = "error" -> Returned(Error(f.val))
      [] f.out = "raise" -> Raised(f.val)
      [] OTHER -> Returned(f.effect)

Unwrap(f) == IF f.k = "AsyncWrapper" THEN f.f ELSE f

\* bool(x) for an Either x: a Right is true, a Left is false
Truthy(x) == x.v = "Right"

\* f of absolve: if either: return CSuccess(either.get)
\*               return Error(either.get)
AbsolveF(x) ==
    IF x.v \notin {"Right", "Left"} THEN Raised(Exc("AttributeError"))
    ELSE IF Truthy(x) THEN Returned(CSuccess(x.get))
    ELSE Returned(Error(x.get))

\* The result of calling a continuation with v
CallK(f, v) ==
    LET h == Unwrap(f) IN
    CASE h.k = "user" -> UserCall(h, v)
      [] h.k = "g" -> Returned(Call([th |-> "g", continuation |-> h.continuation, result |-> v, f |-> h.f]))
      [] h.k = "discard" -> Returned(h.effect)
      \* lambda v: f(v).and_then(g)
      [] h.k = "compose" -> LET r == UserCall(h.continuation, v)
                            IN IF r.raised THEN r ELSE Returned(and_then(r.effect, h.f))
      [] h.k = "absolve" -> AbsolveF(v)
      \* f of c_combine: return AndThen(e, g)
      [] h.k = "combine_f" -> Returned([t |-> "AndThen", effect |-> h.effect,
                                        continuation |-> [k |-> "combine_g", result |-> v]])
      \* g of c_combine: xs.append(x); return Success(xs)
      [] h.k = "combine_g" -> Returned(CSuccess(h.result))
      \* g of map(tuple): Success(tuple(x))
      [] h.k = "map_tuple" -> Returned(CSuccess(Tuple(heap[v.n].items)))
      \* g of Map.resume: CSuccess(self.continuation(x)), for lambda v: v + 1
      [] h.k = "map_g" -> IF h.f.out = "raise" THEN Raised(h.f.val)
                          ELSE Returned(CSuccess(Inc(v)))
      [] h.k = "ensure_value" -> Returned(discard_and_then(h.effect, CSuccess(v)))
      [] h.k = "ensure_reason" -> Returned(discard_and_then(h.effect, Error(v)))

\* The heap after calling a continuation with v: g of c_combine appends to
\* the list it closes over
CallKHeap(f, v) ==
    IF Unwrap(f).k = "combine_g"
    THEN [heap EXCEPT ![Unwrap(f).result.n].items = Append(@, v)]
    ELSE heap

Event(ev, name, arg) == [ev |-> ev, name |-> name, arg |-> arg]

\* The events calling a continuation leaves behind: user functions only
CallKLog(f, v) ==
    LET h == Unwrap(f) IN
    CASE h.k = "user" -> <<Event("call", h.name, v)>>
      [] h.k = "compose" -> <<Event("call", h.continuation.name, v)>>
      [] h.k = "map_g" -> <<Event("call", h.f.name, v)>>
      [] OTHER -> <<>>

-----------------------------------------------------------------------------
(* Interpreter frames: the not-yet-returned calls of one task. Every frame *)
(* carries the locals of the coroutine it stands for.                      *)

NoK == [k |-> "None"]
NoThunk == [th |-> "None"]
NoOutcome == [o |-> "None", value |-> NoneV]

Frame(fr, pc, effect, k, th) ==
    [fr |-> fr, pc |-> pc, effect |-> effect, continuation |-> k, thunk |-> th,
     i |-> 1, acc |-> <<>>, local |-> NoneV]

CallFrame(effect) == Frame("call", "start", effect, NoK, NoThunk)
DoFrame(effect) == Frame("do", "loop", effect, NoK, NoThunk)
ResumeFrame(effect) == Frame("resume", "start", effect, NoK, NoThunk)
ApplyFrame(effect, f) == Frame("apply", "start", effect, f, NoThunk)
ThunkFrame(th) == Frame("thunk", "start", NoEffect, NoK, th)

Task(status, stack) ==
    [status |-> status, stack |-> stack, ret |-> NoEffect, exc |-> NoneV,
     pending |-> NoOutcome, started |-> FALSE]

Unused == Task("unused", <<>>)

Main == 1
Children == 2..MaxTasks

Top(t) == tasks[t].stack[Len(tasks[t].stack)]
Below(t) == SubSeq(tasks[t].stack, 1, Len(tasks[t].stack) - 1)

\* The task holds the loop and its innermost call is at (fr, pc)
At(t, fr, pc) ==
    /\ current = t
    /\ tasks[t].status = "ready"
    /\ tasks[t].stack # <<>>
    /\ Top(t).fr = fr
    /\ Top(t).pc = pc

\* the innermost call returns e to its caller
Return(t, e) == [tasks EXCEPT ![t].stack = Below(t), ![t].ret = e]
\* the innermost call calls fr
Push(t, fr) == [tasks EXCEPT ![t].stack = Append(@, fr), ![t].ret = NoEffect]
\* the innermost call moves on to fr (itself, at a new place)
Goto(t, fr) == [tasks EXCEPT ![t].stack = Append(Below(t), fr), ![t].ret = NoEffect]
\* the innermost call waits at pc for the call fr it makes
PushFrom(t, pc, fr) ==
    [tasks EXCEPT ![t].stack = Append(Append(Below(t), [Top(t) EXCEPT !.pc = pc]), fr),
                  ![t].ret = NoEffect]

\* A native exception: nothing in the interpreter catches it, so every
\* frame of the task is unwound. The main coroutine unwinds to the
\* "async with stack" of __call__; a child task ends with the exception.
Throw(t, exc) ==
    IF t = Main
    THEN [tasks EXCEPT ![t].stack = <<[tasks[t].stack[1] EXCEPT !.pc = "exit"]>>,
                       ![t].ret = NoEffect,
                       ![t].pending = [o |-> "raise", value |-> exc]]
    ELSE [tasks EXCEPT ![t].stack = <<>>, ![t].ret = NoEffect,
                       ![t].status = "failed", ![t].exc = exc,
                       \* gather keeps the first exception a child raises
                       ![Main].exc = IF @ = NoneV THEN exc ELSE @]

\* after a step that may raise: a child that ended gives the loop away
LoopAfter(t, raised) == IF raised /\ t # Main THEN 0 ELSE t

meta == <<scenario, runIdx, outcomes>>
runtime == <<resource, memo, exitStack, nextHandle, refValue, refLock>>
executors == <<env, pools>>
shared == <<runtime, heap, executors>>

-----------------------------------------------------------------------------
(* The event loop *)

\* a variant of the lock that lets everyone in
LockNeverHeld == TRUE

LockFree == refLock = 0

\* a variant in which gather also returns when a child ended in a failure
GatherOverAtFailure ==
    \/ \E c \in Children : tasks[c].status = "failed"
    \/ \E c \in Children : tasks[c].status = "done" /\ tasks[c].ret.t = "Error"
    \/ \A c \in Children : tasks[c].status # "ready"

GatherOver ==
    \/ \E c \in Children : tasks[c].status = "failed"
    \/ \A c \in Children : tasks[c].status # "ready"

\* A task can go on when what it awaits is there. Tasks that gather made
\* start in the order gather was given them.
Runnable(t) ==
    /\ tasks[t].status = "ready"
    /\ tasks[t].stack # <<>>
    /\ (Top(t).fr = "thunk" /\ Top(t).pc = "gather") => GatherOver
    /\ (Top(t).fr = "resume" /\ Top(t).pc = "acquire") => LockFree
    /\ (t \in Children /\ ~tasks[t].started) =>
          \A c \in Children : (c < t /\ tasks[c].status # "unused") => tasks[c].started

Schedule(t) ==
    /\ current = 0
    /\ Runnable(t)
    /\ current' = t
    /\ tasks' = [tasks EXCEPT ![t].started = TRUE]
    /\ UNCHANGED <<meta, shared, log>>

-----------------------------------------------------------------------------
(* CEffect.__call__ and CEffect.do *)

\* a variant in which building a catch effect calls the decorated function
ConstructionCallsF(effect) ==
    IF effect.t = "Catch" THEN <<Event("start", effect.fn.name, NoneV)>> ELSE <<>>

\* The user functions called while the effect is built: the constructors
\* and decorators only store their arguments in the node
ConstructionCalls(effect) == <<>>

\* if asyncio.iscoroutinefunction(f): raise ValueError(...)
\* in the functions that have this check
RejectsAsync(ctor) ==
    ctor \in {"from_io_bound_callable", "from_cpu_bound_callable",
              "catch_io_bound", "catch_cpu_bound"}

UsageError ==
    /\ scenario.family = "bound"
    /\ scenario.base.fn.async
    /\ RejectsAsync(scenario.ctor)

\* The call that would build the effect raises: nothing is built or run
BuildRejected(t) ==
    /\ At(t, "call", "build")
    /\ UsageError
    /\ outcomes' = Append(outcomes, [o |-> "usage_error", value |-> Str(scenario.ctor)])
    /\ runIdx' = Len(scenario.runs) + 1
    /\ tasks' = [tasks EXCEPT ![t] = Task("done", <<>>)]
    /\ current' = 0
    /\ UNCHANGED <<scenario, shared, log>>

\* The program builds the effect it is going to run
Build(t) ==
    /\ At(t, "call", "build")
    /\ ~UsageError
    /\ log' = log \o ConstructionCalls(Top(t).effect) \o <<Event("built", "run", NoneV)>>
    /\ tasks' = Goto(t, [Top(t) EXCEPT !.pc = "start"])
    \* the older sequence() makes the list of its Success([]) when it is called
    /\ heap' = IF scenario.family = "combine" /\ scenario.ctor = "c_combine"
               THEN Append(heap, NativeList(<<>>)) ELSE heap
    /\ UNCHANGED <<meta, current, runtime, executors>>

\* RuntimeEnv.__cinit__: process_executor = None, thread_executor = None
RuntimeEnv == [process |-> 0, thread |-> 0]

\* stack = AsyncExitStack(); async with stack: env = RuntimeEnv(r, stack, ...);
\* effect = await self.do(env)
CallStart(t) ==
    /\ At(t, "call", "start")
    /\ tasks' = PushFrom(t, "wait", DoFrame(Top(t).effect))
    /\ exitStack' = <<>>
    /\ env' = RuntimeEnv
    /\ UNCHANGED <<meta, heap, pools, current, resource, memo, nextHandle, refValue, refLock, log>>

\* a variant that wraps every reason in a RuntimeError
CallOutcomeAlwaysWraps(effect) ==
    IF effect.t = "CSuccess" THEN [o |-> "return", value |-> effect.result]
    ELSE [o |-> "raise_RuntimeError", value |-> effect.reason]

\* what __call__ does with the terminal node do() returned
CallOutcome(effect) ==
    IF effect.t = "CSuccess" THEN [o |-> "return", value |-> effect.result]
    ELSE IF effect.reason.v = "exc" THEN [o |-> "raise", value |-> effect.reason]
    ELSE [o |-> "raise_RuntimeError", value |-> effect.reason]

CallDone(t) ==
    /\ At(t, "call", "wait")
    /\ tasks[t].ret # NoEffect
    /\ tasks' = [tasks EXCEPT ![t].stack = <<[Top(t) EXCEPT !.pc = "exit"]>>,
                              ![t].ret = NoEffect,
                              ![t].pending = CallOutcome(tasks[t].ret)]
    /\ UNCHANGED <<meta, current, shared, log>>

\* a variant that runs the callbacks first in, first out
ExitNextFirstIn(stack) == 1

\* AsyncExitStack.__aexit__ runs the callback registered last
ExitNext(stack) == Len(stack)

\* Leaving "async with stack": the callbacks run last in, first out. One is
\* Resource.__aexit__, which forgets the handle and exits it, or the
\* __exit__ of an executor, which shuts it down.
CallExit(t) ==
    /\ At(t, "call", "exit")
    /\ exitStack # <<>>
    /\ LET i == ExitNext(exitStack)
           r == exitStack[i]
       IN /\ exitStack' = SubSeq(exitStack, 1, i - 1) \o SubSeq(exitStack, i + 1, Len(exitStack))
          /\ IF r \in DOMAIN env
             THEN /\ pools' = [pools EXCEPT ![env[r]].open = FALSE]
                  /\ log' = Append(log, Event("shutdown", r, IntV(env[r])))
                  /\ UNCHANGED <<resource, current>>
             ELSE /\ resource' = [resource EXCEPT ![r] = NoneV]
                  /\ IF resource[r].v = "Right"
                     THEN /\ log' = Append(log, Event("exit", r, resource[r].get))
                          /\ current' = 0
                     ELSE UNCHANGED <<log, current>>
                  /\ UNCHANGED pools
    /\ UNCHANGED <<meta, heap, env, tasks, memo, nextHandle, refValue, refLock>>

\* __call__ returns or raises; asyncio.run cancels what is left on the loop
CallFinish(t) ==
    /\ At(t, "call", "exit")
    /\ exitStack = <<>>
    /\ outcomes' = Append(outcomes, tasks[t].pending)
    /\ runIdx' = runIdx + 1
    /\ log' = Append(log, Event("run_end", "run", NoneV))
    /\ IF runIdx < Len(scenario.runs)
       THEN /\ tasks' = [c \in 1..MaxTasks |->
                           IF c = Main
                           THEN [Task("ready", <<CallFrame(scenario.runs[runIdx + 1])>>)
                                   EXCEPT !.started = TRUE]
                           ELSE Unused]
            /\ current' = Main
       ELSE /\ tasks' = [c \in 1..MaxTasks |->
                           IF c = Main THEN Task("done", <<>>) ELSE Unused]
            /\ current' = 0
    /\ UNCHANGED <<scenario, shared>>

\* while not effect.is_done(): effect = await effect.resume(env)
DoResume(t) ==
    /\ At(t, "do", "loop")
    /\ LET e == IF tasks[t].ret # NoEffect THEN tasks[t].ret ELSE Top(t).effect
       IN /\ ~is_done(e)
          /\ tasks' = [tasks EXCEPT
                          ![t].stack = Append(Append(Below(t), DoFrame(e)), ResumeFrame(e)),
                          ![t].ret = NoEffect]
    /\ UNCHANGED <<meta, current, shared, log>>

\* return effect: to the caller, or as the result of a child task
DoReturn(t) ==
    /\ At(t, "do", "loop")
    /\ LET e == IF tasks[t].ret # NoEffect THEN tasks[t].ret ELSE Top(t).effect
       IN /\ is_done(e)
          /\ IF Len(tasks[t].stack) = 1
             THEN /\ tasks' = [tasks EXCEPT ![t].stack = <<>>, ![t].ret = e,
                                            ![t].status = "done"]
                  /\ current' = 0
             ELSE /\ tasks' = Return(t, e)
                  /\ UNCHANGED current
    /\ UNCHANGED <<meta, shared, log>>

-----------------------------------------------------------------------------
(* resume *)

Pure == UNCHANGED <<meta, current, shared, log>>

\* AndThen.resume: return await self.effect.apply_continuation(self.continuation, env)
ResumeAndThen(t) ==
    /\ At(t, "resume", "start")
    /\ Top(t).effect.t = "AndThen"
    /\ tasks' = PushFrom(t, "wait", ApplyFrame(Top(t).effect.effect, Top(t).effect.continuation))
    /\ Pure

\* WithRepr.resume: return await self.effect.resume(env)
ResumeWithRepr(t) ==
    /\ At(t, "resume", "start")
    /\ Top(t).effect.t = "WithRepr"
    /\ tasks' = PushFrom(t, "wait", ResumeFrame(Top(t).effect.effect))
    /\ Pure

\* Map.resume: return await self.effect.apply_continuation(g, env)
ResumeMap(t) ==
    /\ At(t, "resume", "start")
    /\ Top(t).effect.t = "Map"
    /\ tasks' = PushFrom(t, "wait", ApplyFrame(Top(t).effect.effect,
                                               [k |-> "map_g", f |-> Top(t).effect.continuation]))
    /\ Pure

\* a call that only hands on what the call it awaited returned
ReturnThrough(t) ==
    /\ \/ At(t, "resume", "wait")
       \/ At(t, "apply", "wait")
    /\ tasks[t].ret # NoEffect
    /\ tasks' = Return(t, tasks[t].ret)
    /\ Pure

Thunked == {"Memoize", "Recover", "Either", "Sequence", "SequenceAsync"}

\* Memoize, Recover, Sequence, SequenceAsync: resume returns Call(thunk),
\* the thunk closing over the node
ResumeThunked(t) ==
    /\ At(t, "resume", "start")
    /\ Top(t).effect.t \in Thunked
    /\ tasks' = Return(t, Call([th |-> Top(t).effect.t, effect |-> Top(t).effect]))
    /\ Pure

\* Call.resume: return await self.thunk()
ResumeCall(t) ==
    /\ At(t, "resume", "start")
    /\ Top(t).effect.t = "Call"
    /\ tasks' = PushFrom(t, "wait", ThunkFrame(Top(t).effect.thunk))
    /\ Pure

\* env.r: the dependency the run invocation in progress was given
Dependency == IntV(scenario.envs[runIdx])

\* a variant of the test below that takes every exception for a declared one
DeclaresAll(exceptions, e) == TRUE

\* any(isinstance(e, e_type) for e_type in self.exceptions)
Declares(exceptions, e) == e.name \in exceptions

\* What FromCallable.resume and Catch.resume make of the way f ended
LeafResult(effect) ==
    LET fn == effect.fn IN
    IF effect.t = "FromCallable"
    THEN CASE fn.out = "Right" -> Returned(CSuccess(fn.val))
           [] fn.out = "Left" -> Returned(Error(fn.val))
           \* lambda r: Right(r)
           [] fn.out = "Env" -> Returned(CSuccess(Dependency))
           [] OTHER -> Raised(fn.val)
    ELSE CASE fn.out = "Return" -> Returned(CSuccess(fn.val))
           [] fn.out = "Raise" /\ Declares(effect.exceptions, fn.val) -> Returned(Error(fn.val))
           [] OTHER -> Raised(fn.val)

LeafEnd(t) ==
    LET r == LeafResult(Top(t).effect) IN
    /\ tasks' = IF r.raised THEN Throw(t, r.exc) ELSE Return(t, r.effect)
    /\ current' = LoopAfter(t, r.raised)

\* call_f awaits f's coroutine, or the executor that runs f
Suspends(effect) == effect.fn.async \/ effect.pool # "none"

\* FromCallable.resume / Catch.resume: call_f calls f; a coroutine is awaited
\* a variant that makes an executor at every dispatch
ExecutorMissingAlways(executor) == TRUE

\* "if self.thread_executor is None", "if self.process_executor is None"
ExecutorMissing(executor) == executor = 0

\* call_f of a leaf. One bound to a pool goes through run_in_thread_executor
\* or run_in_process_executor of the environment: the executor is made and
\* entered into the exit stack when the environment has none, and only then
\* does the coroutine await loop.run_in_executor.
LeafCall(t) ==
    /\ At(t, "resume", "start")
    /\ Top(t).effect.t \in {"FromCallable", "Catch"}
    /\ LET e == Top(t).effect
           made == e.pool # "none" /\ ExecutorMissing(env[e.pool])
           executor == IF made THEN Len(pools) + 1 ELSE env[e.pool]
           dispatch == IF e.pool = "none" THEN <<>>
                       ELSE (IF made THEN <<Event("pool", e.pool, IntV(executor))>> ELSE <<>>)
                            \o <<Event("submit", e.pool, IntV(executor))>>
       IN /\ IF Suspends(e)
             THEN /\ tasks' = Goto(t, [Top(t) EXCEPT !.pc = "await"])
                  /\ current' = 0
                  /\ log' = log \o dispatch \o <<Event("start", e.fn.name, NoneV)>>
             ELSE /\ LeafEnd(t)
                  /\ log' = log \o <<Event("start", e.fn.name, NoneV),
                                     Event("end", e.fn.name, NoneV)>>
          /\ pools' = IF made THEN Append(pools, [kind |-> e.pool, run |-> runIdx, open |-> TRUE])
                       ELSE pools
          /\ env' = IF made THEN [env EXCEPT ![e.pool] = executor] ELSE env
          /\ exitStack' = IF made THEN Append(exitStack, e.pool) ELSE exitStack
    /\ UNCHANGED <<meta, heap, resource, memo, nextHandle, refValue, refLock>>

LeafAwaited(t) ==
    /\ At(t, "resume", "await")
    /\ LeafEnd(t)
    /\ log' = Append(log, Event("end", Top(t).effect.fn.name, NoneV))
    /\ UNCHANGED <<meta, shared>>

\* FromAwaitable.resume and FromAwaitable.apply_continuation both start with
\* await self.awaitable
FromAwaitableAwait(t) ==
    /\ \/ At(t, "resume", "start")
       \/ At(t, "apply", "start")
    /\ Top(t).effect.t = "FromAwaitable"
    /\ tasks' = Goto(t, [Top(t) EXCEPT !.pc = "awaitable"])
    /\ current' = 0
    /\ UNCHANGED <<meta, shared, log>>

\* FromAwaitable.resume: return CSuccess(await self.awaitable)
FromAwaitableResumed(t) ==
    /\ At(t, "resume", "awaitable")
    /\ tasks' = Return(t, CSuccess(Top(t).effect.awaitable))
    /\ Pure

\* FromAwaitable.apply_continuation: return f(await self.awaitable)
\* f is a coroutine function or an AsyncWrapper, so f(...) is a coroutine
\* object, which is returned without being awaited: the body of f does not
\* run, and the checked cast <CEffect?> of the caller (CEffect.do, or the
\* typed local of Map.apply_continuation) raises TypeError
FromAwaitableApplied(t) ==
    /\ At(t, "apply", "awaitable")
    /\ tasks' = Throw(t, Exc("TypeError"))
    /\ current' = LoopAfter(t, TRUE)
    /\ UNCHANGED <<meta, shared, log>>

-----------------------------------------------------------------------------
(* apply_continuation *)

\* CSuccess.apply_continuation: return await f(self.result)
ApplySuccess(t) ==
    /\ At(t, "apply", "start")
    /\ Top(t).effect.t = "CSuccess"
    /\ LET r == CallK(Top(t).continuation, Top(t).effect.result)
       IN /\ tasks' = IF r.raised THEN Throw(t, r.exc) ELSE Return(t, r.effect)
          /\ current' = LoopAfter(t, r.raised)
    /\ log' = log \o CallKLog(Top(t).continuation, Top(t).effect.result)
    /\ heap' = CallKHeap(Top(t).continuation, Top(t).effect.result)
    /\ UNCHANGED <<meta, runtime, executors>>

\* a variant that hands the reason to the continuation
ErrorApplyCallsF(self, f) == CallK(f, self.reason).effect

\* Error.apply_continuation: return self
ErrorApply(self, f) == self

ApplyError(t) ==
    /\ At(t, "apply", "start")
    /\ Top(t).effect.t = "Error"
    /\ tasks' = Return(t, ErrorApply(Top(t).effect, Top(t).continuation))
    /\ Pure

\* AndThen.apply_continuation:
\*   return self.effect.c_and_then(self.continuation).c_and_then(f)
ApplyAndThen(t) ==
    /\ At(t, "apply", "start")
    /\ Top(t).effect.t = "AndThen"
    /\ tasks' = Return(t, c_and_then(c_and_then(Top(t).effect.effect,
                                                Top(t).effect.continuation),
                                     Top(t).continuation))
    /\ Pure

\* WithRepr.apply_continuation: return await self.effect.apply_continuation(f, env)
ApplyWithRepr(t) ==
    /\ At(t, "apply", "start")
    /\ Top(t).effect.t = "WithRepr"
    /\ tasks' = PushFrom(t, "wait", ApplyFrame(Top(t).effect.effect, Top(t).continuation))
    /\ Pure

\* Map.apply_continuation: effect = await self.resume(env)
ApplyMap(t) ==
    /\ At(t, "apply", "start")
    /\ Top(t).effect.t = "Map"
    /\ tasks' = PushFrom(t, "remap", ResumeFrame(Top(t).effect))
    /\ Pure

\* ... return await effect.apply_continuation(f, env)
ApplyMapped(t) ==
    /\ At(t, "apply", "remap")
    /\ tasks[t].ret # NoEffect
    /\ tasks' = PushFrom(t, "wait", ApplyFrame(tasks[t].ret, Top(t).continuation))
    /\ Pure

\* Call.apply_continuation: effect = await self.thunk()
ApplyCall(t) ==
    /\ At(t, "apply", "start")
    /\ Top(t).effect.t = "Call"
    /\ tasks' = PushFrom(t, "chain", ThunkFrame(Top(t).effect.thunk))
    /\ Pure

\* every other node: effect = await self.resume(env)
ApplyResume(t) ==
    /\ At(t, "apply", "start")
    /\ Top(t).effect.t \in Thunked \cup {"ResourceGet", "FromCallable", "Catch",
                                         "RefModify", "RefTryModify"}
    /\ tasks' = PushFrom(t, "chain", ResumeFrame(Top(t).effect))
    /\ Pure

\* ... return effect.c_and_then(f)
ApplyChain(t) ==
    /\ At(t, "apply", "chain")
    /\ tasks[t].ret # NoEffect
    /\ tasks' = Return(t, c_and_then(tasks[t].ret, Top(t).continuation))
    /\ Pure

-----------------------------------------------------------------------------
(* The thunks of Memoize, Recover, Sequence, SequenceAsync and of the      *)
(* closure g of AndThen.c_and_then                                         *)

\* a variant that never finds a cached result
MemoizeAlwaysMiss(name) == TRUE

\* if self.result is None: ...
MemoizeMiss(name) == memo[name] = NoEffect

\* Memoize: if self.result is None: self.result = await self.effect.do(env)
ThunkMemoize(t) ==
    /\ At(t, "thunk", "start")
    /\ Top(t).thunk.th = "Memoize"
    /\ LET node == Top(t).thunk.effect
       IN IF MemoizeMiss(node.name)
          THEN /\ tasks' = PushFrom(t, "memo", DoFrame(node.effect))
               /\ log' = Append(log, Event("memo_run", node.name, NoneV))
          ELSE /\ tasks' = Return(t, memo[node.name])
               /\ UNCHANGED log
    /\ UNCHANGED <<meta, current, shared>>

\* ... self.result = <what do returned>; return self.result
ThunkMemoizeStore(t) ==
    /\ At(t, "thunk", "memo")
    /\ tasks[t].ret # NoEffect
    /\ memo' = [memo EXCEPT ![Top(t).thunk.effect.name] = tasks[t].ret]
    /\ tasks' = Return(t, tasks[t].ret)
    /\ UNCHANGED <<meta, heap, executors, current, resource, exitStack, nextHandle, refValue, refLock, log>>

\* Recover: effect = await self.effect.do(env)
ThunkRecover(t) ==
    /\ At(t, "thunk", "start")
    /\ Top(t).thunk.th = "Recover"
    /\ tasks' = PushFrom(t, "recover", DoFrame(Top(t).thunk.effect.effect))
    /\ Pure

\* a variant that hands on the terminal node as it is
EitherResultUnwrapped(result) == result

\* if isinstance(result, CSuccess): return CSuccess(Right(result.result))
\* return CSuccess(Left(result.reason))
EitherResult(result) ==
    IF result.t = "CSuccess" THEN CSuccess(Right(result.result))
    ELSE CSuccess(Left(result.reason))

\* Either: result = await self.effect.do(env)
ThunkEither(t) ==
    /\ At(t, "thunk", "start")
    /\ Top(t).thunk.th = "Either"
    /\ tasks' = PushFrom(t, "either", DoFrame(Top(t).thunk.effect.effect))
    /\ Pure

ThunkEithered(t) ==
    /\ At(t, "thunk", "either")
    /\ tasks[t].ret # NoEffect
    /\ tasks' = Return(t, EitherResult(tasks[t].ret))
    /\ Pure

\* a variant of the test below that lets every terminal node through
RecoverPassesAll(effect) == TRUE

\* if isinstance(effect, CSuccess): return effect
RecoverPasses(effect) == effect.t = "CSuccess"

\* ... if isinstance(effect, CSuccess): return effect
\*     return self.f(effect.reason)
ThunkRecovered(t) ==
    /\ At(t, "thunk", "recover")
    /\ tasks[t].ret # NoEffect
    /\ LET e == tasks[t].ret
           f == Top(t).thunk.effect.continuation
       IN IF RecoverPasses(e)
          THEN /\ tasks' = Return(t, e)
               /\ UNCHANGED <<current, log, heap>>
          ELSE LET r == CallK(f, e.reason)
               IN /\ tasks' = IF r.raised THEN Throw(t, r.exc) ELSE Return(t, r.effect)
                  /\ current' = LoopAfter(t, r.raised)
                  /\ log' = log \o CallKLog(f, e.reason)
                  /\ heap' = CallKHeap(f, e.reason)
    /\ UNCHANGED <<meta, runtime, executors>>

\* a variant that walks the effects from the last to the first
NextInSequenceReversed(effects, i) == effects[Len(effects) + 1 - i]

\* for e in self.effects: the effect the i-th round of the loop takes
NextInSequence(effects, i) == effects[i]

\* Sequence: for e in self.effects: e2 = await e.do(env)
\* after the loop: return CSuccess(tuple(result))
ThunkSequence(t) ==
    /\ At(t, "thunk", "start")
    /\ Top(t).thunk.th = "Sequence"
    /\ LET effects == Top(t).thunk.effect.effects
       IN IF Top(t).i > Len(effects)
          THEN tasks' = Return(t, CSuccess(Tuple(Top(t).acc)))
          ELSE tasks' = PushFrom(t, "seq", DoFrame(NextInSequence(effects, Top(t).i)))
    /\ Pure

\* what the loop of Sequence does with the terminal node e2 of effect i:
\* TRUE when it goes on to effect i + 1, FALSE when it returns e2
SequenceGoesOn(e2) == e2.t = "CSuccess"

\* ... if isinstance(e2, CSuccess): result[i] = e2.result else: return e2
ThunkSequenceNext(t) ==
    /\ At(t, "thunk", "seq")
    /\ tasks[t].ret # NoEffect
    /\ LET e2 == tasks[t].ret
       IN IF SequenceGoesOn(e2)
          THEN tasks' = Goto(t, [Top(t) EXCEPT !.pc = "start", !.i = @ + 1,
                                               !.acc = Append(@, e2.result)])
          ELSE tasks' = Return(t, e2)
    /\ Pure

\* SequenceAsync: aws[i] = effect.do(r); effects = await asyncio.gather(*aws)
\* gather makes one task of every coroutine
ThunkSequenceAsync(t) ==
    /\ At(t, "thunk", "start")
    /\ Top(t).thunk.th = "SequenceAsync"
    /\ LET effects == Top(t).thunk.effect.effects
       IN tasks' = [c \in 1..MaxTasks |->
                       IF c = t THEN [tasks[t] EXCEPT
                                        !.stack = Append(Below(t), [Top(t) EXCEPT !.pc = "gather"]),
                                        !.ret = NoEffect, !.exc = NoneV]
                       ELSE IF c - 1 <= Len(effects)
                            THEN Task("ready", <<DoFrame(effects[c - 1])>>)
                            ELSE Unused]
    /\ current' = 0
    /\ UNCHANGED <<meta, shared, log>>

\* a variant that hands the results on in the reverse order
GatheredReversed(n) == [i \in 1..n |-> tasks[n - i + 2].ret]

\* the terminal nodes of the children, in the order of the effects
Gathered(n) == [i \in 1..n |-> tasks[i + 1].ret]

\* ... return sequence(effects); an exception of a child is raised by gather
ThunkGathered(t) ==
    /\ At(t, "thunk", "gather")
    /\ IF \E c \in Children : tasks[c].status = "failed"
       THEN /\ tasks' = [Throw(t, tasks[t].exc) EXCEPT ![t].exc = NoneV]
       ELSE /\ tasks' = [c \in 1..MaxTasks |->
                            IF c = t
                            THEN [tasks[t] EXCEPT !.stack = Below(t),
                                     !.ret = Sequence(Gathered(Len(Top(t).thunk.effect.effects)))]
                            ELSE Unused]
    /\ Pure

\* g of AndThen.c_and_then: e = await self.continuation(v); return e.c_and_then(f)
ThunkG(t) ==
    /\ At(t, "thunk", "start")
    /\ Top(t).thunk.th = "g"
    /\ LET th == Top(t).thunk
           r == CallK(th.continuation, th.result)
       IN /\ tasks' = IF r.raised THEN Throw(t, r.exc)
                      ELSE Return(t, c_and_then(r.effect, th.f))
          /\ current' = LoopAfter(t, r.raised)
          /\ log' = log \o CallKLog(th.continuation, th.result)
          /\ heap' = CallKHeap(th.continuation, th.result)
    /\ UNCHANGED <<meta, runtime, executors>>

-----------------------------------------------------------------------------
(* Resource and ResourceGet *)

\* if self.resource.resource is None:
ResourceMissing(name) == resource[name] = NoneV

\* ResourceGet.resume, first half: the check, and the call of the factory
\*   resource = self.resource.resource_factory()
\*   if asyncio.iscoroutine(resource): resource = await resource
ResourceGetStart(t) ==
    /\ At(t, "resume", "start")
    /\ Top(t).effect.t = "ResourceGet"
    /\ IF ResourceMissing(Top(t).effect.name)
       THEN LET made == IF scenario.factory.out = "Right"
                        THEN Right(Handle(nextHandle + 1))
                        ELSE Left(scenario.factory.val)
            IN /\ nextHandle' = nextHandle + 1
               /\ log' = Append(log, Event("factory", Top(t).effect.name, made))
               /\ tasks' = Goto(t, [Top(t) EXCEPT !.pc = "assign", !.local = made])
               /\ current' = IF scenario.factory.async THEN 0 ELSE t
       ELSE /\ tasks' = Goto(t, [Top(t) EXCEPT !.pc = "return"])
            /\ UNCHANGED <<nextHandle, log, current>>
    /\ UNCHANGED <<meta, heap, executors, resource, memo, exitStack, refValue, refLock>>

\*   self.resource.resource = resource
\*   await env.exit_stack.enter_async_context(self.resource)
\* Resource.__aenter__ enters the handle when the factory gave a Right
ResourceGetAssign(t) ==
    /\ At(t, "resume", "assign")
    /\ resource' = [resource EXCEPT ![Top(t).effect.name] = Top(t).local]
    /\ IF Top(t).local.v = "Right"
       THEN /\ log' = Append(log, Event("enter", Top(t).effect.name, Top(t).local.get))
            /\ tasks' = Goto(t, [Top(t) EXCEPT !.pc = "entering"])
            /\ current' = 0
       ELSE /\ tasks' = Goto(t, [Top(t) EXCEPT !.pc = "entered"])
            /\ UNCHANGED <<log, current>>
    /\ UNCHANGED <<meta, heap, executors, memo, exitStack, nextHandle, refValue, refLock>>

\* enter_async_context pushes the Resource's __aexit__ once __aenter__ returned
ResourceGetEntered(t) ==
    /\ \/ At(t, "resume", "entering")
       \/ At(t, "resume", "entered")
    /\ exitStack' = Append(exitStack, Top(t).effect.name)
    /\ log' = IF Top(t).pc = "entering"
              THEN Append(log, Event("entered", Top(t).effect.name, Top(t).local.get))
              ELSE log
    /\ tasks' = Goto(t, [Top(t) EXCEPT !.pc = "return"])
    /\ UNCHANGED <<meta, heap, executors, current, resource, memo, nextHandle, refValue, refLock>>

\* ResourceGet.resume, the end:
\*   if isinstance(self.resource.resource, Right):
\*       return CSuccess(self.resource.resource.get)
\*   return Error(self.resource.resource.get)
ResourceGetReturn(t) ==
    /\ At(t, "resume", "return")
    /\ LET held == resource[Top(t).effect.name]
       IN IF held = NoneV
          THEN /\ tasks' = Throw(t, Exc("AttributeError"))
               /\ current' = LoopAfter(t, TRUE)
               /\ UNCHANGED log
          ELSE /\ tasks' = Return(t, IF held.v = "Right" THEN CSuccess(held.get)
                                                           ELSE Error(held.get))
               /\ log' = Append(log, Event("got", Top(t).effect.name, held.get))
               /\ UNCHANGED current
    /\ UNCHANGED <<meta, shared>>

-----------------------------------------------------------------------------
(* Ref.modify: the lock is held from the read of the state to its write    *)

\* async with self.lock: the task waits while another one holds the lock;
\* then the state is read and handed to the update function
RefModifyStart(t) ==
    /\ \/ At(t, "resume", "start")
       \/ At(t, "resume", "acquire")
    /\ Top(t).effect.t \in {"RefModify", "RefTryModify"}
    /\ IF LockFree
       THEN /\ refLock' = t
            /\ tasks' = Goto(t, [Top(t) EXCEPT !.pc = "write", !.local = refValue])
            /\ log' = Append(log, Event("read", Top(t).effect.name, refValue))
       ELSE /\ tasks' = Goto(t, [Top(t) EXCEPT !.pc = "acquire"])
            /\ UNCHANGED <<refLock, log>>
    /\ current' = 0
    /\ UNCHANGED <<meta, heap, executors, resource, memo, exitStack, nextHandle, refValue>>

\* what the update function returns: modify's lambda v: v + 1 as a Right,
\* try_modify's lambda v: Right(v + 1) or lambda v: Left(reason)
UpdateResult(effect, value) ==
    IF effect.t = "RefTryModify" /\ effect.fn.out = "Left" THEN Left(effect.fn.val)
    ELSE Right(Inc(value))

\* a variant that stores whatever the update function returned
RefStateAlwaysWritten(value, result) == result.get

\* the state after the update: unchanged when the function declined
RefState(value, result) == IF result.v = "Right" THEN result.get ELSE value

\* self.value = f(value), or the failure with the declined reason; the
\* lock is released
RefModifyWrite(t) ==
    /\ At(t, "resume", "write")
    /\ LET result == UpdateResult(Top(t).effect, Top(t).local)
           state == RefState(Top(t).local, result)
       IN /\ refValue' = state
          /\ log' = Append(log, Event("write", Top(t).effect.name, state))
          /\ tasks' = Return(t, IF result.v = "Right" THEN CSuccess(NoneV)
                                ELSE Error(result.get))
    /\ refLock' = IF refLock = t THEN 0 ELSE refLock
    /\ UNCHANGED <<meta, heap, executors, current, resource, memo, exitStack, nextHandle>>

-----------------------------------------------------------------------------
(* pfun.trampoline: Done, Call and the driver loop of Trampoline.run, with  *)
(* the factorial of the guide as the trampolined function                  *)

Done(result) == [t |-> "Done", result |-> result]

\* lambda: factorial_acc(n - 1, n * acc), not yet called
FactorialThunk(n, accum) == [th |-> "factorial_acc", n |-> n, accum |-> accum]

\* a variant of factorial_acc that forgets to multiply
factorial_accKeepsAcc(n, accum) ==
    IF n = 1 THEN Done(IntV(accum)) ELSE Call(FactorialThunk(n - 1, accum))

\* if n == 1: return Done(acc)
\* return Call(lambda: factorial_acc(n - 1, n * acc))
factorial_acc(n, accum) ==
    IF n = 1 THEN Done(IntV(accum)) ELSE Call(FactorialThunk(n - 1, n * accum))

RunFrame(trampoline) == Frame("run", "loop", trampoline, NoK, NoThunk)

\* run(): while the current node is a Call, invoke its thunk
TrampolineStep(t) ==
    /\ At(t, "run", "loop")
    /\ LET node == IF tasks[t].ret # NoEffect THEN tasks[t].ret ELSE Top(t).effect
       IN /\ node.t = "Call"
          /\ tasks' = [tasks EXCEPT
                          ![t].stack = Append(Append(Below(t), RunFrame(node)),
                                              ThunkFrame(node.thunk)),
                          ![t].ret = NoEffect]
    /\ Pure

\* the thunk calls factorial_acc, which returns the next node at once
TrampolineThunk(t) ==
    /\ At(t, "thunk", "start")
    /\ Top(t).thunk.th = "factorial_acc"
    /\ tasks' = Return(t, factorial_acc(Top(t).thunk.n, Top(t).thunk.accum))
    /\ Pure

\* run(): when a Done is reached, return its result
TrampolineDone(t) ==
    /\ At(t, "run", "loop")
    /\ LET node == IF tasks[t].ret # NoEffect THEN tasks[t].ret ELSE Top(t).effect
       IN /\ node.t = "Done"
          /\ outcomes' = Append(outcomes, [o |-> "return", value |-> node.result])
    /\ runIdx' = runIdx + 1
    /\ tasks' = [tasks EXCEPT ![t] = Task("done", <<>>)]
    /\ current' = 0
    /\ UNCHANGED <<scenario, shared, log>>

-----------------------------------------------------------------------------
(* pfun.list.List and pfun.dict.Dict: wrappers of a native list and dict.   *)
(* An operation takes the heap and gives the heap after it and what it     *)
(* returns.                                                                *)

List(items) == [v |-> "List", items |-> items]
Dict(mapping) == [v |-> "Dict", map |-> mapping]

\* a variant of append that appends in place, as list.append does
ListAppendInPlace(h, self, x) ==
    [heap |-> [h EXCEPT ![self.n].items = Append(@, x)], ret |-> self]

\* List.append(x): a new List of the elements followed by x
ListAppend(h, self, x) ==
    [heap |-> Append(h, List(Append(h[self.n].items, x))), ret |-> Object(Len(h) + 1)]

\* Dict.set(key, value): a new Dict in which key is bound to value
DictSet(h, self, key, value) ==
    LET mapping == h[self.n].map
    IN [heap |-> Append(h, Dict([c \in DOMAIN mapping \cup {key} |->
                                    IF c = key THEN value ELSE mapping[c]])),
        ret |-> Object(Len(h) + 1)]

\* key in d
DictContains(h, self, key) == key \in DOMAIN h[self.n].map

\* Dict.get(key): Just(value), or Nothing when the key is absent
DictGet(h, self, key) ==
    IF DictContains(h, self, key) THEN Just(h[self.n].map[key]) ELSE Nothing

\* l = List(xs), d = Dict({...}): the receiver is made
Construct(t) ==
    /\ At(t, "collections", "construct")
    /\ heap' = Append(heap, IF scenario.op = "append" THEN List(scenario.xs)
                                                       ELSE Dict(scenario.d))
    /\ tasks' = Goto(t, [Top(t) EXCEPT !.pc = scenario.op, !.acc = <<Object(Len(heap) + 1)>>])
    /\ UNCHANGED <<meta, current, runtime, executors, log>>

\* l2 = l.append(x)
ListAppendCall(t) ==
    /\ At(t, "collections", "append")
    /\ LET r == ListAppend(heap, Top(t).acc[1], scenario.x)
       IN /\ heap' = r.heap
          /\ tasks' = Goto(t, [Top(t) EXCEPT !.pc = "return", !.acc = Append(@, r.ret)])
    /\ UNCHANGED <<meta, current, runtime, executors, log>>

\* d2 = d.set(key, value)
DictSetCall(t) ==
    /\ At(t, "collections", "set")
    /\ LET r == DictSet(heap, Top(t).acc[1], scenario.key, scenario.x)
       IN /\ heap' = r.heap
          /\ tasks' = Goto(t, [Top(t) EXCEPT !.pc = "return", !.acc = Append(@, r.ret)])
    /\ UNCHANGED <<meta, current, runtime, executors, log>>

\* the program ends with its two variables, the receiver and the result
CollectionsEnd(t) ==
    /\ At(t, "collections", "return")
    /\ outcomes' = Append(outcomes, [o |-> "return", value |-> Tuple(Top(t).acc)])
    /\ runIdx' = runIdx + 1
    /\ tasks' = [tasks EXCEPT ![t] = Task("done", <<>>)]
    /\ current' = 0
    /\ UNCHANGED <<scenario, shared, log>>

-----------------------------------------------------------------------------
(* The Intersection type operator of the type-checker plugin               *)

Protocol(name) == [v |-> "Protocol", name |-> name]
\* a class that is not a protocol: object, str
Instance(name) == [v |-> "Instance", name |-> name]
AnyType == [v |-> "Any"]
IntersectionType(items) == [v |-> "Intersection", items |-> items]

Revealed(type) == [o |-> "type", value |-> type]
\* All arguments to "Intersection" must be protocols
Illegal == [o |-> "error", value |-> Str("must be protocols")]

\* the arguments with every nested intersection replaced by its members
RECURSIVE Flatten(_)
Flatten(args) ==
    IF args = <<>> THEN <<>>
    ELSE (IF Head(args).v = "Intersection" THEN Flatten(Head(args).items)
          ELSE <<Head(args)>>) \o Flatten(Tail(args))

IsObject(type) == type = Instance("object")
NotObject(type) == ~IsObject(type)

\* a variant that keeps object among the members
MembersWithObject(args) == Flatten(args)

\* the members of the intersection: the universal base type is left out
Members(args) == SelectSeq(Flatten(args), NotObject)

\* The results the type checker can give for Intersection[args]. Any
\* absorbs, an argument that is neither a protocol nor Any is an error; for
\* arguments with both the spec says either, so both are possible here.
Intersection(args) ==
    LET flat == Members(args)
        any == \E i \in DOMAIN flat : flat[i].v = "Any"
        bad == \E i \in DOMAIN flat : flat[i].v = "Instance"
    IN (IF any THEN {Revealed(AnyType)} ELSE {})
       \cup (IF bad THEN {Illegal} ELSE {})
       \cup (IF ~any /\ ~bad
             THEN {Revealed(IF Len(flat) = 1 THEN flat[1] ELSE IntersectionType(flat))}
             ELSE {})

\* i: Intersection[args] is analysed
IntersectionHook(t) ==
    /\ At(t, "analyse", "start")
    /\ \E r \in Intersection(scenario.runs[runIdx]) : outcomes' = Append(outcomes, r)
    /\ runIdx' = runIdx + 1
    /\ IF runIdx < Len(scenario.runs)
       THEN UNCHANGED <<tasks, current>>
       ELSE /\ tasks' = [tasks EXCEPT ![t] = Task("done", <<>>)]
            /\ current' = 0
    /\ UNCHANGED <<scenario, shared, log>>

-----------------------------------------------------------------------------
(* The programs that are run. Each scenario is a list of composed effects, *)
(* one per run invocation, built with the combinators above.               *)

PosName == <<"a", "b", "c", "d", "e", "f">>
ErrName == <<"ea", "eb", "ec", "ed", "ee", "ef">>

NoFn == Fn("none", "Right", NoneV, FALSE)

Scenario(family, runs, factory, es, base, k) ==
    [family |-> family, runs |-> runs, factory |-> factory, es |-> es,
     base |-> base, k |-> k]

\* the leaf at position i of a list: a function of the dependency that
\* returns Right(i) or Left(reason i), at once or after awaiting I/O
Leaf(i, out, async) ==
    FromCallable(Fn(PosName[i], out,
                    CASE out = "Right" -> IntV(i)
                      [] out = "Left" -> Str(ErrName[i])
                      [] OTHER -> Exc(ErrName[i]),
                    async))

RECURSIVE Repeat(_, _)
Repeat(x, n) == IF n = 0 THEN <<>> ELSE Append(Repeat(x, n - 1), x)

\* x.and_then(lambda _: x).and_then(lambda _: x) ..., n times x
RECURSIVE Chain(_, _)
Chain(x, n) == IF n = 1 THEN x ELSE and_then(Chain(x, n - 1), ConstK("again", x))

Composed(x, n) ==
    {Chain(x, n), Sequence(Repeat(x, n)), SequenceAsync(Repeat(x, n))}

\* how the rest of the run ends after the composition: nothing more,
\* a declared failure, or a native exception raised by a continuation
Tails(e) ==
    {e, and_then(e, UserK("tail", "error", Str("tail"))),
        and_then(e, UserK("tail", "raise", Exc("tail")))}

ResourceScenarios ==
    {Scenario("resource", <<e>>, Fn("factory", out, Str("nofactory"), async), <<>>, NoEffect, NoK) :
        e \in UNION {Tails(c) : c \in UNION {Composed(ResourceGet("res"), n) : n \in 1..NumGets}},
        out \in {"Right", "Left"}, async \in BOOLEAN}

MemoizeScenarios ==
    {Scenario("memoize", <<e>>, NoFn, <<>>, NoEffect, NoK) :
        e \in UNION {Composed(Memoize("m", Leaf(1, out, async)), n) :
                        n \in 1..NumEvals, out \in {"Right", "Left"}, async \in BOOLEAN}}

Bases ==
    {Leaf(1, out, async) : out \in {"Right", "Left", "Raise"}, async \in BOOLEAN}
    \cup {Catch({declared}, Fn("a", "Raise", Exc("ea"), FALSE)) : declared \in {"ea", "eb"}}
    \cup {and_then(CSuccess(IntV(1)), UserK("k", "raise", Exc("ek")))}

Finalizers == {Leaf(2, out, FALSE) : out \in {"Right", "Left"}}

EnsureScenarios ==
    {Scenario("ensure", <<ensure(b, f)>>, NoFn, <<f>>, b, NoK) :
        b \in Bases, f \in Finalizers}

RefScenarios ==
    {Scenario("ref", <<SequenceAsync(Repeat(RefModify("ref"), n))>>, NoFn, <<>>, NoEffect, NoK) :
        n \in 1..NumModify}

Lists(S) == UNION {[1..n -> S] : n \in 0..MaxLen}

LeafLists ==
    {[i \in DOMAIN c |-> Leaf(i, c[i][1], c[i][2])] :
        c \in Lists({"Right", "Left"} \X BOOLEAN)}

SequenceScenarios ==
    {Scenario("sequence", <<Sequence(es)>>, NoFn, es, NoEffect, NoK) : es \in LeafLists}

PureLists == Lists({CSuccess(IntV(1)), CSuccess(IntV(2)), Error(Str("x")), Error(Str("y"))})

\* sequence(es) in one run, sequence_async(es) in the next one
PureScenarios ==
    {Scenario("pure", <<Sequence(es), SequenceAsync(es)>>, NoFn, es, NoEffect, NoK) :
        es \in PureLists}

Lefts ==
    {Leaf(1, out, async) : out \in {"Right", "Left"}, async \in BOOLEAN}
    \cup {and_then(Leaf(1, out, TRUE), UserK("inner", "success_inc", NoneV)) : out \in {"Right", "Left"}}
    \cup {Memoize("m", Leaf(1, out, TRUE)) : out \in {"Right", "Left"}}
    \cup {Sequence(<<Leaf(1, "Right", TRUE), Leaf(2, out, TRUE)>>) : out \in {"Right", "Left"}}
    \cup {discard_and_then(Leaf(1, out, TRUE), CSuccess(IntV(5))) : out \in {"Right", "Left"}}
    \cup {CSuccess(IntV(1)), Error(Str("ea"))}

Continuations ==
    {UserK("k", "success_inc", NoneV), UserK("k", "error", Str("ek")),
     UserK("k", "raise", Exc("ek")), ConstK("k", Leaf(3, "Right", TRUE))}

AndThenScenarios ==
    {Scenario("and_then", <<and_then(e, f)>>, NoFn, <<>>, e, f) :
        e \in Lefts, f \in Continuations}

\* effects that end in a terminal node, handed to run as they are
Terminating ==
    {CSuccess(IntV(1)), Error(Str("ea")), Error(Exc("ea"))}
    \cup {Leaf(1, out, async) : out \in {"Right", "Left"}, async \in BOOLEAN}
    \cup {Catch({"ea"}, Fn("a", "Return", IntV(1), FALSE)),
          Catch({"ea"}, Fn("a", "Raise", Exc("ea"), TRUE))}

RunScenarios ==
    {Scenario("run", <<e>>, NoFn, <<>>, e, NoK) : e \in Terminating}

RecoverHandlers == Continuations \cup {ConstK("k", Leaf(3, "Left", TRUE))}

RecoverScenarios ==
    {Scenario("recover", <<recover(e, f)>>, NoFn, <<>>, e, f) :
        e \in Lefts, f \in RecoverHandlers}

\* g = catch(E1, ..., En)(f); g(args) alone, under recover and under either
Catches ==
    {Catch(exceptions, Fn("a", out, IF out = "Return" THEN IntV(1) ELSE Exc("ea"), async)) :
        exceptions \in {{"ea"}, {"eb"}, {"eb", "ea"}},
        out \in {"Return", "Raise"}, async \in BOOLEAN}

Handlers(c) == {c, recover(c, UserK("k", "success_inc", NoneV)), either(c)}

CatchScenarios ==
    UNION {{Scenario("catch", <<e>>, NoFn, <<>>, c, NoK) : e \in Handlers(c)} : c \in Catches}

BoundCtors ==
    {"io_bound", "cpu_bound", "from_io_bound_callable", "from_cpu_bound_callable",
     "catch_io_bound", "catch_cpu_bound"}

\* what the call ctor(f), for the catch variants ctor(E)(f)(args), gives
BoundEffect(ctor, async) ==
    LET fn == Fn("a", "Right", IntV(1), async) IN
    CASE ctor = "from_io_bound_callable" -> Pooled(FromCallable(fn), "thread")
      [] ctor = "from_cpu_bound_callable" -> Pooled(FromCallable(fn), "process")
      [] ctor = "catch_io_bound" -> Pooled(Catch({"ea"}, [fn EXCEPT !.out = "Return"]), "thread")
      [] ctor = "catch_cpu_bound" -> Pooled(Catch({"ea"}, [fn EXCEPT !.out = "Return"]), "process")
      \* io_bound(f) and cpu_bound(f) are f, used here with from_callable
      [] OTHER -> FromCallable(fn)

BoundScenarios ==
    {[family |-> "bound", runs |-> <<BoundEffect(ctor, async)>>, factory |-> NoFn, es |-> <<>>,
      base |-> BoundEffect(ctor, async), k |-> NoK, ctor |-> ctor] :
        ctor \in BoundCtors, async \in BOOLEAN}

\* e, e.either() and absolve(e.either()), each in a run of its own
EitherScenarios ==
    {Scenario("either", <<e, either(e), absolve(either(e))>>, NoFn, <<>>, e, NoK) :
        e \in Terminating \cup {and_then(Leaf(1, "Right", TRUE), UserK("inner", out, Str("ek"))) :
                                  out \in {"success_inc", "error"}}}

\* res.get().and_then(lambda handle: use(handle)): an effect that holds the
\* handle while it awaits I/O
User ==
    and_then(ResourceGet("res"), ConstK("hold", FromCallable(Fn("use", "Right", IntV(1), TRUE))))

\* a user of the handle next to a second user, or next to an effect that
\* succeeds, fails or raises
HoldScenarios ==
    {Scenario("hold", <<SequenceAsync(<<User, sibling>>)>>,
              Fn("factory", "Right", NoneV, async), <<>>, sibling, NoK) :
        async \in BOOLEAN,
        sibling \in {User} \cup {Leaf(2, out, TRUE) : out \in {"Right", "Left", "Raise"}}}

\* two run invocations, one after the other, that use the same Resource
IsolateScenarios ==
    {Scenario("isolate", <<first, User>>, Fn("factory", "Right", NoneV, async), <<>>, first, NoK) :
        async \in BOOLEAN,
        first \in {User} \cup {SequenceAsync(<<User, Leaf(2, out, TRUE)>>) : out \in {"Right", "Raise"}}}

\* one Memoize node evaluated once or twice in a first run and again in a
\* second run, which is given the same or another dependency
CacheScenarios ==
    {[family |-> "cache", runs |-> <<Chain(Memoize("m", leaf), n), Memoize("m", leaf)>>,
      factory |-> NoFn, es |-> <<>>, base |-> leaf, k |-> NoK, envs |-> <<1, second>>] :
        n \in 1..NumEvals, second \in {1, 2},
        leaf \in {FromCallable(Fn("a", out, Str("ea"), async)) :
                    out \in {"Env", "Left"}, async \in BOOLEAN}}

\* ref.try_modify(f) alone and next to concurrent ref.modify effects
TryModifyScenarios ==
    {Scenario("try_modify", <<IF n = 0 THEN RefTryModify("try", fn)
                              ELSE SequenceAsync(Append(Repeat(RefModify("ref"), n),
                                                        RefTryModify("try", fn)))>>,
              NoFn, <<>>, RefTryModify("try", fn), NoK) :
        n \in 0..NumModify,
        fn \in {Fn("f", "Right", NoneV, FALSE), Fn("f", "Left", Str("declined"), FALSE)}}

\* success(0).and_then(inc).and_then(inc)... and success(0).map(inc).map(inc)...
\* with n links, inc adding one
RECURSIVE LeftNested(_, _)
LeftNested(op, n) ==
    IF n = 0 THEN CSuccess(IntV(0))
    ELSE IF op = "and_then"
         THEN and_then(LeftNested(op, n - 1), UserK("inc", "success_inc", NoneV))
         ELSE map(LeftNested(op, n - 1), UserK("inc", "inc", NoneV))

ChainScenarios ==
    {Scenario("chain", <<LeftNested(op, n)>>, NoFn, <<>>, CSuccess(IntV(n)), NoK) :
        op \in {"and_then", "map"}, n \in 1..MaxChain}

\* e.and_then(f).and_then(g) in one run, e.and_then(lambda v: f(v).and_then(g))
\* in the next one
AssocScenarios ==
    {Scenario("assoc", <<and_then(and_then(e, f), g),
                         and_then(e, [k |-> "compose", continuation |-> f, f |-> g])>>,
              NoFn, <<>>, e, f) :
        e \in Lefts \cup {Leaf(1, "Raise", FALSE)},
        f \in {[c EXCEPT !.name = "f"] : c \in Continuations},
        g \in {[c EXCEPT !.name = "g"] : c \in Continuations}}

\* factorial(n): factorial_acc(n, 1).run()
TrampolineScenarios ==
    {[family |-> "trampoline", runs |-> <<factorial_acc(n, 1)>>, factory |-> NoFn,
      es |-> <<>>, base |-> NoEffect, k |-> NoK, n |-> n] : n \in 1..MaxN}

Elements == 1..MaxItems
Keys == {"a", "b"}

\* l = List(xs); l2 = l.append(x)  and  d = Dict(m); d2 = d.set(key, x)
CollectionsScenarios ==
    {[family |-> "collections", runs |-> <<NoEffect>>, op |-> "append",
      xs |-> xs, x |-> x, d |-> <<>>, key |-> "a"] :
        xs \in UNION {[1..n -> Elements] : n \in 0..MaxItems}, x \in Elements}
    \cup {[family |-> "collections", runs |-> <<NoEffect>>, op |-> "set",
           xs |-> <<>>, x |-> x, d |-> d, key |-> key] :
        d \in UNION {[S -> Elements] : S \in SUBSET Keys}, key \in Keys, x \in Elements}

Reverse(s) == [i \in DOMAIN s |-> s[Len(s) + 1 - i]]

Protocols == {Protocol("P1"), Protocol("P2"), Protocol("P3")}

\* what can be written as an argument: a protocol, object, Any, a class
\* that is not a protocol, an intersection of two protocols
Arguments ==
    Protocols \cup {Instance("object"), Instance("str"), AnyType}
    \cup {IntersectionType(<<Protocol("P1"), Protocol("P2")>>),
          IntersectionType(<<Protocol("P2"), Protocol("P3")>>)}

\* no protocol is named twice (a class cannot have the same base twice) and
\* a protocol is named at least once
WellFormed(args) ==
    LET flat == Flatten(args) IN
    /\ \A i, j \in DOMAIN flat : (i # j /\ flat[i].v \in {"Protocol", "Instance"}) => flat[i] # flat[j]
    /\ \E i \in DOMAIN flat : flat[i].v = "Protocol"

\* i: Intersection[args], and i2: Intersection[the arguments in reverse]
IntersectionScenarios ==
    {[family |-> "intersection", runs |-> <<args, Reverse(args)>>] :
        args \in {a \in UNION {[1..n -> Arguments] : n \in 1..MaxArgs} : WellFormed(a)}}

\* one effect of every kind of node, succeeding or failing
Kinds ==
    {CSuccess(IntV(1)), Error(Str("ea")), FromAwaitable(IntV(1)),
     and_then(Leaf(1, "Right", TRUE), UserK("inner", "success_inc", NoneV)),
     map(CSuccess(IntV(1)), UserK("inner", "inc", NoneV)),
     recover(Leaf(1, "Left", TRUE), UserK("h", "success_inc", NoneV)),
     either(Leaf(1, "Left", FALSE)), Memoize("m", Leaf(1, "Right", TRUE)),
     ResourceGet("res"), Leaf(1, "Right", FALSE), Leaf(1, "Left", TRUE),
     Catch({"ea"}, Fn("a", "Return", IntV(1), FALSE)),
     Catch({"ea"}, Fn("a", "Raise", Exc("ea"), TRUE)),
     Sequence(<<Leaf(1, "Right", TRUE), Leaf(2, "Right", FALSE)>>),
     SequenceAsync(<<Leaf(1, "Right", TRUE), Leaf(2, "Left", TRUE)>>),
     SequenceAsync(<<Leaf(1, "Right", TRUE), Leaf(2, "Right", TRUE)>>)}

\* node, node.and_then(f) and node.map(g), each in a run of its own
UniformScenarios ==
    {Scenario("uniform", <<node, and_then(node, f), map(node, UserK("g", "inc", NoneV))>>,
              Fn("factory", out, Str("nofactory"), FALSE), <<>>, node, f) :
        node \in Kinds, out \in {"Right", "Left"},
        f \in {UserK("f", "success_inc", NoneV), UserK("f", "error", Str("ef"))}}

\* one effect built by sequence(es), run twice: with the sequence of the
\* older effect.pyx, built on c_combine, and with the Sequence node
CombineScenarios ==
    {[family |-> "combine",
      runs |-> Repeat(IF ctor = "c_combine" THEN sequence(es, Object(1)) ELSE Sequence(es), 2),
      factory |-> NoFn, es |-> es, base |-> NoEffect, k |-> NoK, ctor |-> ctor] :
        es \in LeafLists, ctor \in {"c_combine", "Sequence"}}

\* sequence_async(es) over functions that succeed or fail, at once or after
\* awaiting I/O, so that they end in any order
\* leaves bound to no pool, to the thread pool or to the process pool, run
\* one after the other or concurrently, in two run invocations
PoolKinds == {"none", "thread", "process"}
Dispatches ==
    {[i \in DOMAIN ds |-> Pooled(Leaf(i, "Right", FALSE), ds[i])] :
        ds \in UNION {[1..n -> PoolKinds] : n \in 0..NumDispatch}}
PoolScenarios ==
    {Scenario("pool", Repeat(Sequence(es), 2), NoFn, es, NoEffect, NoK) : es \in Dispatches}
    \cup {Scenario("pool", Repeat(SequenceAsync(es), 2), NoFn, es, NoEffect, NoK) :
             es \in Dispatches}

\* what a run can register in its exit scope: a Resource handle, the thread
\* pool, the process pool; registered in any order, one after the other or
\* concurrently, before the run ends in each of the three ways
Registering ==
    {ResourceGet("res"), Pooled(Leaf(2, "Right", FALSE), "thread"),
     Pooled(Leaf(3, "Right", FALSE), "process")}
Orders ==
    UNION {{es \in [1..n -> Registering] : \A i, j \in 1..n : es[i] = es[j] => i = j} :
              n \in 1..Cardinality(Registering)}
ScopeScenarios ==
    UNION {{Scenario("scope", <<e>>, Fn("factory", "Right", Str("nofactory"), async),
                     es, NoEffect, NoK) :
               e \in Tails(Sequence(es)) \cup Tails(SequenceAsync(es)), async \in BOOLEAN} :
           es \in Orders}

GatherScenarios ==
    {Scenario("gather", <<SequenceAsync(es)>>, NoFn, es, NoEffect, NoK) : es \in LeafLists}

Scenarios ==
    ResourceScenarios \cup MemoizeScenarios \cup EnsureScenarios \cup RefScenarios
    \cup SequenceScenarios \cup PureScenarios \cup AndThenScenarios
    \cup RunScenarios \cup RecoverScenarios \cup CatchScenarios
    \cup BoundScenarios \cup EitherScenarios \cup HoldScenarios
    \cup IsolateScenarios \cup CacheScenarios
    \cup TryModifyScenarios \cup ChainScenarios \cup AssocScenarios
    \cup TrampolineScenarios \cup CollectionsScenarios \cup IntersectionScenarios
    \cup UniformScenarios \cup CombineScenarios \cup GatherScenarios
    \cup PoolScenarios \cup ScopeScenarios

-----------------------------------------------------------------------------

\* the call the program starts with: the construction of the effect that is
\* then run, or the run() of a trampoline
Program ==
    IF scenario.family = "trampoline" THEN RunFrame(scenario.runs[1])
    ELSE IF scenario.family = "collections"
    THEN Frame("collections", "construct", NoEffect, NoK, NoThunk)
    ELSE IF scenario.family = "intersection"
    THEN Frame("analyse", "start", NoEffect, NoK, NoThunk)
    ELSE [CallFrame(scenario.runs[1]) EXCEPT !.pc = "build"]

Init ==
    /\ scenario \in Scenarios
    /\ runIdx = 1
    /\ tasks = [c \in 1..MaxTasks |->
                   IF c = Main
                   THEN [Task("ready", <<Program>>) EXCEPT !.started = TRUE]
                   ELSE Unused]
    /\ current = Main
    /\ resource = [r \in {"res"} |-> NoneV]
    /\ memo = [m \in {"m"} |-> NoEffect]
    /\ exitStack = <<>>
    /\ nextHandle = 0
    /\ refValue = IntV(0)
    /\ refLock = 0
    /\ heap = <<>>
    /\ env = RuntimeEnv
    /\ pools = <<>>
    /\ outcomes = <<>>
    /\ log = <<>>

Next ==
    \E t \in 1..MaxTasks :
        \/ Schedule(t)
        \/ Build(t) \/ BuildRejected(t)
        \/ CallStart(t) \/ CallDone(t) \/ CallExit(t) \/ CallFinish(t)
        \/ DoResume(t) \/ DoReturn(t)
        \/ ResumeAndThen(t) \/ ResumeWithRepr(t) \/ ReturnThrough(t)
        \/ ResumeThunked(t) \/ ResumeCall(t)
        \/ LeafCall(t) \/ LeafAwaited(t)
        \/ FromAwaitableAwait(t) \/ FromAwaitableResumed(t) \/ FromAwaitableApplied(t)
        \/ ApplySuccess(t) \/ ApplyError(t) \/ ApplyAndThen(t) \/ ApplyWithRepr(t)
        \/ ApplyCall(t) \/ ApplyResume(t) \/ ApplyChain(t)
        \/ ResumeMap(t) \/ ApplyMap(t) \/ ApplyMapped(t)
        \/ ThunkMemoize(t) \/ ThunkMemoizeStore(t)
        \/ ThunkRecover(t) \/ ThunkRecovered(t)
        \/ ThunkEither(t) \/ ThunkEithered(t)
        \/ ThunkSequence(t) \/ ThunkSequenceNext(t)
        \/ ThunkSequenceAsync(t) \/ ThunkGathered(t) \/ ThunkG(t)
        \/ ResourceGetStart(t) \/ ResourceGetAssign(t) \/ ResourceGetEntered(t)
        \/ ResourceGetReturn(t)
        \/ RefModifyStart(t) \/ RefModifyWrite(t)
        \/ TrampolineStep(t) \/ TrampolineThunk(t) \/ TrampolineDone(t)
        \/ IntersectionHook(t)
        \/ Construct(t) \/ ListAppendCall(t) \/ DictSetCall(t) \/ CollectionsEnd(t)

Spec == Init /\ [][Next]_vars

\* The interpreter does not stop while it has a step to take
LiveSpec == Spec /\ WF_vars(Next)

AllDone == runIdx > Len(scenario.runs)

-----------------------------------------------------------------------------
(* What the log and the outcomes say *)

Events(ev, name) == {i \in DOMAIN log : log[i].ev = ev /\ log[i].name = name}
Count(ev, name) == Cardinality(Events(ev, name))
Args(ev, name) == {log[i].arg : i \in Events(ev, name)}

\* the handles the factory made and that were entered
EnteredHandles == Args("enter", "res")
Exits(h) == Cardinality({i \in Events("exit", "res") : log[i].arg = h})

-----------------------------------------------------------------------------
(* Resource *)

\* C1: within one run, however the get() effects of one Resource are
\* composed and whether the factory is synchronous or asynchronous, the
\* factory is invoked at most once and every get() yields the same handle.
C1_FactoryOnceSameHandle ==
    scenario.family = "resource" =>
        /\ Count("factory", "res") <= 1
        /\ Cardinality(Args("got", "res")) <= 1

\* C2: every handle whose enter routine was invoked during a run has its
\* exit routine invoked exactly once when the run's resource scope exits,
\* on every exit path and for every composition of get() calls.
C2_EnteredExitedOnce ==
    (scenario.family = "resource" /\ AllDone) =>
        \A h \in EnteredHandles : Exits(h) = 1

-----------------------------------------------------------------------------
(* Memoize *)

\* C3: the effect wrapped by memoize() is run at most once per Memoize
\* node, also when evaluations of the node are in progress concurrently
\* under sequence_async.
C3_MemoizeRunsOnce ==
    scenario.family = "memoize" => Count("memo_run", "m") <= 1

-----------------------------------------------------------------------------
(* ensure *)

BaseRaises == scenario.base.t = "AndThen" \/ LeafResult(scenario.base).raised
BaseOutcome == CallOutcome(LeafResult(scenario.base).effect)
FinalizerRuns == Count("start", "b")

\* C4: for base.ensure(finalizer) each run executes the finalizer effect
\* exactly once, after the base has terminated, when the base succeeds and
\* when it fails, for every finalizer including one that itself fails.
C4_FinalizerExactlyOnce ==
    (scenario.family = "ensure" /\ ~BaseRaises) =>
        /\ FinalizerRuns > 0 => Count("end", "a") = 1
        /\ AllDone => FinalizerRuns = 1

\* C5: the outcome of base.ensure(finalizer) is the base effect's outcome;
\* the finalizer's own result, value or failure, never replaces it.
C5_EnsureKeepsOutcome ==
    (scenario.family = "ensure" /\ ~BaseRaises /\ AllDone) =>
        outcomes[1] = BaseOutcome

\* C6: the finalizer of base.ensure(finalizer) also runs when the base
\* effect ends by an uncaught native exception.
C6_FinalizerRunsOnException ==
    (scenario.family = "ensure" /\ BaseRaises /\ AllDone) => FinalizerRuns = 1

-----------------------------------------------------------------------------
(* Ref *)

Modifiers == Len(scenario.runs[1].effects)

\* C7: N effects ref.modify(lambda v: v + 1) on a Ref initialised to 0, run
\* concurrently under sequence_async, leave the state at exactly N; no
\* effect reads or writes the state between a modify's read and its write.
C7_NoLostUpdate ==
    scenario.family = "ref" =>
        /\ \A i \in Events("read", "ref") :
              i < Len(log) => log[i + 1] = Event("write", "ref", Inc(log[i].arg))
        /\ AllDone => refValue = IntV(Modifiers)

C7_Witness ==
    /\ scenario.family = "ref"
    /\ AllDone
    /\ Modifiers = NumModify
    /\ Count("write", "ref") = NumModify
    /\ refValue = IntV(NumModify)

-----------------------------------------------------------------------------
(* sequence and sequence_async *)

Started(i) == Count("start", PosName[i]) > 0
Ended(i) == Count("end", PosName[i]) > 0

Failing(es) == {i \in DOMAIN es : es[i].fn.out = "Left"}
FirstFailing(es) == CHOOSE i \in Failing(es) : \A j \in Failing(es) : i <= j

\* C8: sequence(effects) runs its effects one at a time in positional
\* order, stops at the first failure without starting any later effect and
\* fails with that reason; if all succeed it succeeds with the tuple of
\* their values in positional order.
C8_SequenceInOrder ==
    scenario.family = "sequence" =>
        LET es == scenario.es IN
        /\ \A i \in DOMAIN es :
              /\ Count("start", PosName[i]) <= 1
              /\ Started(i) => \A j \in 1..(i - 1) : Ended(j) /\ es[j].fn.out = "Right"
        /\ AllDone =>
              IF Failing(es) = {}
              THEN /\ outcomes[1] = [o |-> "return", value |-> Tuple([i \in DOMAIN es |-> es[i].fn.val])]
                   /\ \A i \in DOMAIN es : Ended(i)
              ELSE /\ outcomes[1] = [o |-> "raise_RuntimeError", value |-> es[FirstFailing(es)].fn.val]
                   /\ Ended(FirstFailing(es))

C8_Witness ==
    /\ scenario.family = "sequence"
    /\ AllDone
    /\ Len(scenario.es) = MaxLen
    /\ Failing(scenario.es) = {2, 3}
    /\ scenario.es[1].fn.async /\ scenario.es[2].fn.async
    /\ Ended(2) /\ ~Started(3)
    /\ outcomes[1].o = "raise_RuntimeError"

\* C9: for every finite list es of pure success/error effects, running
\* sequence_async(es) gives the same outcome as running sequence(es).
C9_AsyncEqualsSequence ==
    (scenario.family = "pure" /\ AllDone) => outcomes[2] = outcomes[1]

C9_Witness ==
    /\ scenario.family = "pure"
    /\ AllDone
    /\ scenario.es = <<CSuccess(IntV(1)), Error(Str("x")), Error(Str("y"))>>
    /\ outcomes[1] = [o |-> "raise_RuntimeError", value |-> Str("x")]
    /\ outcomes[2] = outcomes[1]

-----------------------------------------------------------------------------
(* and_then *)

\* What an effect without native exceptions comes to: the terminal node of
\* a leaf, of and_then, memoize, sequence and with_repr over such effects
RECURSIVE Denote(_)
Denote(e) ==
    CASE is_done(e) -> e
      [] e.t \in {"FromCallable", "Catch"} -> LeafResult(e).effect
      [] e.t \in {"Memoize", "WithRepr"} -> Denote(e.effect)
      [] e.t = "AndThen" ->
            LET d == Denote(e.effect)
            IN IF d.t = "CSuccess" THEN Denote(CallK(e.continuation, d.result).effect) ELSE d
      [] e.t = "Sequence" ->
            LET ds == [i \in DOMAIN e.effects |-> Denote(e.effects[i])]
                bad == {i \in DOMAIN ds : ds[i].t = "Error"}
            IN IF bad = {} THEN CSuccess(Tuple([i \in DOMAIN ds |-> ds[i].result]))
               ELSE ds[CHOOSE i \in bad : \A j \in bad : i <= j]

\* the user functions the left operand of the scenario calls
LeftNames == {"a", "b", "inner"}

\* C10: in e.and_then(f), f is invoked only after e has reached a terminal
\* success, with that success value, and at most once per evaluation; if e
\* terminates in failure, f is never invoked and the composition fails
\* with e's reason.
C10_AndThenAfterSuccess ==
    scenario.family = "and_then" =>
        LET d == Denote(scenario.base) IN
        /\ Count("call", "k") <= 1
        /\ \A i \in Events("call", "k") :
              /\ d.t = "CSuccess"
              /\ log[i].arg = d.result
              /\ \A n \in LeftNames :
                    /\ Count("start", n) = Count("end", n)
                    /\ \A j \in Events("start", n) \cup Events("end", n) : j < i
        /\ d.t = "Error" =>
              /\ Count("call", "k") = 0
              /\ AllDone => outcomes[1] = CallOutcome(d)

C10_Witness ==
    /\ scenario.family = "and_then"
    /\ AllDone
    /\ scenario.base.t = "Sequence"
    /\ Count("call", "k") = 1
    /\ Count("end", "b") = 1
    /\ outcomes[1].o = "return"

-----------------------------------------------------------------------------
(* run *)

\* C11: run on an effect that ends in Success(v) returns v; on one that ends
\* in Error(x) it raises x itself when x is an exception and a RuntimeError
\* with payload x otherwise; it never returns normally for a failure.
C11_RunOutcome ==
    (scenario.family = "run" /\ AllDone) =>
        LET d == Denote(scenario.base) IN
        /\ d.t = "CSuccess" => outcomes[1] = [o |-> "return", value |-> d.result]
        /\ d.t = "Error" =>
              /\ outcomes[1].o # "return"
              /\ outcomes[1].value = d.reason
              /\ outcomes[1].o = IF d.reason.v = "exc" THEN "raise" ELSE "raise_RuntimeError"

C11_Witness ==
    /\ scenario.family = "run"
    /\ AllDone
    /\ scenario.base.t = "Catch"
    /\ outcomes[1] = [o |-> "raise", value |-> Exc("ea")]

-----------------------------------------------------------------------------
(* recover *)

\* C12: for e.recover(f), when e succeeds f is not called and the result
\* is e's success unchanged; when e fails with reason r, f is called
\* exactly once with r and the result is the outcome of the effect f
\* returns, a success or a new failure.
C12_RecoverReplacesFailure ==
    scenario.family = "recover" =>
        LET d == Denote(scenario.base) IN
        /\ d.t = "CSuccess" =>
              /\ Count("call", "k") = 0
              /\ AllDone => outcomes[1] = [o |-> "return", value |-> d.result]
        /\ d.t = "Error" =>
              /\ Count("call", "k") <= 1
              /\ Args("call", "k") \subseteq {d.reason}
              /\ AllDone =>
                    LET r == UserCall(scenario.k, d.reason) IN
                    /\ Count("call", "k") = 1
                    /\ outcomes[1] = IF r.raised THEN [o |-> "raise", value |-> r.exc]
                                     ELSE CallOutcome(Denote(r.effect))

C12_Witness ==
    /\ scenario.family = "recover"
    /\ AllDone
    /\ Denote(scenario.base).t = "Error"
    /\ scenario.k.out = "effect"
    /\ Count("call", "k") = 1
    /\ Count("end", "c") = 1
    /\ outcomes[1] = [o |-> "return", value |-> IntV(3)]

-----------------------------------------------------------------------------
(* catch *)

\* the terminal node e comes to under the handler wrapped around it
Handled(wrapper, e) ==
    CASE wrapper = "Either" -> EitherResult(e)
      [] wrapper = "Recover" /\ e.t = "Error" -> CSuccess(e.reason)
      [] OTHER -> e

\* C13: for g = catch(E1, ..., En)(f), calling g(args) does not call f; when
\* the effect is run f is called, a normal return v gives success v, an
\* exception that is an instance of one of E1..En gives a failure whose
\* reason is that exception, and any other exception propagates uncaught
\* past enclosing recover/either handlers and out of run.
C13_CatchDeclaredOnly ==
    scenario.family = "catch" =>
        LET c == scenario.base
            wrapper == scenario.runs[1].t
            declared == c.fn.val.name \in c.exceptions
        IN
        /\ \A i \in Events("start", "a") : \E j \in Events("built", "run") : j < i
        /\ Count("start", "a") <= 1
        /\ AllDone =>
              /\ Count("start", "a") = 1
              /\ c.fn.out = "Return" =>
                    outcomes[1] = CallOutcome(Handled(wrapper, CSuccess(c.fn.val)))
              /\ (c.fn.out = "Raise" /\ declared) =>
                    /\ outcomes[1] = CallOutcome(Handled(wrapper, Error(c.fn.val)))
                    /\ wrapper = "Recover" => Args("call", "k") = {c.fn.val}
              /\ (c.fn.out = "Raise" /\ ~declared) =>
                    /\ outcomes[1] = [o |-> "raise", value |-> c.fn.val]
                    /\ Count("call", "k") = 0

C13_Witness ==
    /\ scenario.family = "catch"
    /\ AllDone
    /\ scenario.runs[1].t = "Either"
    /\ scenario.base.exceptions = {"eb"}
    /\ scenario.base.fn.out = "Raise"
    /\ Count("end", "a") = 1
    /\ outcomes[1] = [o |-> "raise", value |-> Exc("ea")]

-----------------------------------------------------------------------------
(* the io-bound and cpu-bound variants *)

\* C14: calling cpu_bound, io_bound, catch_cpu_bound, catch_io_bound,
\* from_cpu_bound_callable or from_io_bound_callable with a coroutine
\* function raises a usage error at that call, before any effect is
\* constructed or run.
C14_AsyncRejected ==
    (scenario.family = "bound" /\ scenario.base.fn.async) =>
        /\ Count("built", "run") = 0
        /\ Count("start", "a") = 0
        /\ AllDone => outcomes = <<[o |-> "usage_error", value |-> Str(scenario.ctor)]>>

-----------------------------------------------------------------------------
(* either and absolve *)

\* C15: e.either() ends in success, Right(v) when e succeeds with v and
\* Left(r) when e fails with r, and running absolve(e.either()) gives the
\* same outcome as running e.
C15_AbsolveInvertsEither ==
    (scenario.family = "either" /\ AllDone) =>
        LET d == Denote(scenario.base) IN
        /\ outcomes[2] = [o |-> "return",
                          value |-> IF d.t = "CSuccess" THEN Right(d.result) ELSE Left(d.reason)]
        /\ outcomes[3] = outcomes[1]

C15_Witness ==
    /\ scenario.family = "either"
    /\ AllDone
    /\ scenario.base.t = "AndThen"
    /\ outcomes[1] = [o |-> "raise_RuntimeError", value |-> Str("ek")]
    /\ outcomes[2] = [o |-> "return", value |-> Left(Str("ek"))]
    /\ outcomes[3] = outcomes[1]

-----------------------------------------------------------------------------
(* Resource: a handle that is held *)

\* C16: at every moment at which an effect has obtained a handle from
\* resource.get() and has not yet returned, the handle's enter routine has
\* completed and its exit routine has not started, also when several
\* effects obtain the handle concurrently under sequence_async and when a
\* sibling effect fails or raises.
C16_HeldHandleIsOpen ==
    scenario.family = "hold" =>
        /\ \A i \in Events("got", "res") :
              \E j \in 1..(i - 1) : log[j] = Event("entered", "res", log[i].arg)
        /\ \A i \in Events("start", "use") \cup Events("end", "use") :
              \A j \in 1..i : log[j].ev # "exit"

\* C17: resource acquisition is isolated per run invocation: each
\* invocation that evaluates resource.get() acquires its handle itself and
\* releases it at its own scope exit, and after an invocation ends for any
\* reason the Resource holds no handle, so no handle is carried over to a
\* later invocation.
C17_IsolatedPerRun ==
    scenario.family = "isolate" =>
        /\ (log # <<>> /\ log[Len(log)].ev = "run_end") => resource["res"] = NoneV
        /\ \A i \in Events("got", "res") :
              \E j \in 1..(i - 1) :
                  /\ log[j] = Event("entered", "res", log[i].arg)
                  /\ \A m \in j..i : log[m].ev # "run_end"

-----------------------------------------------------------------------------
(* Memoize across runs *)

\* C18: once the effect wrapped by a Memoize node has reached a terminal
\* outcome, every later evaluation of the node, in the same run or in a
\* later run, also one given a different dependency, yields the cached
\* outcome without running the wrapped effect.
C18_CacheOutlivesRun ==
    scenario.family = "cache" =>
        /\ Count("memo_run", "m") <= 1
        /\ Count("start", "a") <= 1
        /\ AllDone =>
              /\ outcomes[1] = IF scenario.base.fn.out = "Env"
                               THEN [o |-> "return", value |-> IntV(scenario.envs[1])]
                               ELSE [o |-> "raise_RuntimeError", value |-> Str("ea")]
              /\ outcomes[2] = outcomes[1]

C18_Witness ==
    /\ scenario.family = "cache"
    /\ AllDone
    /\ scenario.envs = <<1, 2>>
    /\ scenario.base.fn.out = "Env"
    /\ Len(log) > 2 /\ log[Len(log) - 1] = Event("run_end", "run", NoneV)
    /\ Count("end", "a") = 1
    /\ outcomes = <<[o |-> "return", value |-> IntV(1)], [o |-> "return", value |-> IntV(1)]>>

-----------------------------------------------------------------------------
(* Ref.try_modify *)

\* C19: when the update function given to ref.try_modify returns a
\* Left(reason), the Ref's state after the effect is identical to its state
\* before it, and the effect fails with that reason.
C19_DeclinedLeavesState ==
    (scenario.family = "try_modify" /\ scenario.base.fn.out = "Left") =>
        /\ \A i \in Events("read", "try") :
              i < Len(log) => log[i + 1] = Event("write", "try", log[i].arg)
        /\ AllDone =>
              /\ refValue = IntV(Count("write", "ref"))
              /\ outcomes[1] = [o |-> "raise_RuntimeError", value |-> scenario.base.fn.val]

C19_Witness ==
    /\ scenario.family = "try_modify"
    /\ scenario.base.fn.out = "Left"
    /\ AllDone
    /\ Count("write", "ref") = NumModify
    /\ \E i \in Events("write", "try") : log[i].arg = IntV(1)
    /\ refValue = IntV(NumModify)

-----------------------------------------------------------------------------
(* Stack depth *)

\* C20: while a left-nested chain of n and_then links, and likewise of n
\* map links, over a terminal effect is run, the number of nested,
\* not-yet-returned interpreter calls stays bounded by a constant
\* independent of n (the five calls a chain of one and_then link needs),
\* and the chain completes with the n increments applied.
C20_ConstantStackDepth ==
    scenario.family = "chain" =>
        /\ \A t \in 1..MaxTasks : Len(tasks[t].stack) <= 5
        /\ AllDone => outcomes[1] = [o |-> "return", value |-> scenario.base.result]

-----------------------------------------------------------------------------
(* Associativity of and_then *)

\* the index in the log at which run invocation r ended
RunEnd(r) ==
    CHOOSE i \in DOMAIN log :
        /\ log[i].ev = "run_end"
        /\ Cardinality({j \in 1..i : log[j].ev = "run_end"}) = r

\* the events of run invocation r, once it has ended
RunLog(r) == SubSeq(log, IF r = 1 THEN 1 ELSE RunEnd(r - 1) + 1, RunEnd(r) - 1)

IsCall(e) == e.ev = "call"
CallsIn(r) == SelectSeq(RunLog(r), IsCall)

\* C21: and_then is associative: running e.and_then(f).and_then(g) yields
\* the same outcome as running e.and_then(lambda v: f(v).and_then(g)), with
\* f and g invoked the same number of times, in the same order and with the
\* same arguments.
C21_AndThenAssociative ==
    (scenario.family = "assoc" /\ AllDone) =>
        /\ outcomes[2] = outcomes[1]
        /\ CallsIn(2) = CallsIn(1)

C21_Witness ==
    /\ scenario.family = "assoc"
    /\ AllDone
    /\ scenario.base = Leaf(1, "Right", TRUE)
    /\ CallsIn(1) = <<Event("call", "f", IntV(1)), Event("call", "g", IntV(2))>>
    /\ CallsIn(2) = CallsIn(1)
    /\ outcomes[1] = [o |-> "return", value |-> IntV(3)]

-----------------------------------------------------------------------------
(* Construction *)

\* the main coroutine has built the effect of the first run and not yet run it
JustBuilt == runIdx = 1 /\ At(Main, "call", "start")

-----------------------------------------------------------------------------
(* Trampoline *)

RECURSIVE Factorial(_)
Factorial(n) == IF n <= 1 THEN 1 ELSE n * Factorial(n - 1)

\* the state predicate of C23: one run() call and at most one thunk call are
\* outstanding, and the result is n!
TrampolineSafe ==
    scenario.family = "trampoline" =>
        /\ Len(tasks[Main].stack) <= 2
        /\ \A i \in DOMAIN tasks[Main].stack :
              (tasks[Main].stack[i].fr = "thunk") = (i = 2)
        /\ AllDone => outcomes = <<[o |-> "return", value |-> IntV(Factorial(scenario.n))]>>

\* C23: Trampoline.run() steps iteratively: while the current node is a Call
\* it invokes the thunk to obtain the next node, with no thunk invocation
\* still outstanding between steps, and when a Done is reached it returns
\* its result; the trampolined factorial terminates with n! for every
\* n >= 1.
C23_TrampolineFactorial ==
    /\ []TrampolineSafe
    /\ (scenario.family = "trampoline") ~> AllDone

C23_Witness ==
    /\ scenario.family = "trampoline"
    /\ scenario.n >= 4
    /\ AllDone
    /\ outcomes = <<[o |-> "return", value |-> IntV(Factorial(scenario.n))]>>

-----------------------------------------------------------------------------
(* List and Dict *)

\* the variables of the program when it has ended: the receiver, the result
Receiver == outcomes[1].value.items[1]
Result == outcomes[1].value.items[2]

\* C24: List.append and Dict.set return a new collection containing the
\* change and leave the receiver unchanged: after l2 = l.append(x), l equals
\* its previous value and l2 equals it with x appended; after
\* d2 = d.set(k, v), the presence and value of every key in d are as before
\* while d2.get(k) == Just(v).
C24_ReceiverUnchanged ==
    (scenario.family = "collections" /\ AllDone) =>
        IF scenario.op = "append"
        THEN /\ heap[Receiver.n] = List(scenario.xs)
             /\ heap[Result.n] = List(Append(scenario.xs, scenario.x))
        ELSE /\ \A c \in Keys :
                    /\ DictContains(heap, Receiver, c) = (c \in DOMAIN scenario.d)
                    /\ c \in DOMAIN scenario.d =>
                          DictGet(heap, Receiver, c) = Just(scenario.d[c])
             /\ DictGet(heap, Result, scenario.key) = Just(scenario.x)

C24_Witness ==
    /\ scenario.family = "collections"
    /\ AllDone
    /\ scenario.op = "append"
    /\ Len(scenario.xs) = MaxItems
    /\ Len(heap[Receiver.n].items) = MaxItems
    /\ Len(heap[Result.n].items) = MaxItems + 1

C24_WitnessSet ==
    /\ scenario.family = "collections"
    /\ AllDone
    /\ scenario.op = "set"
    /\ DOMAIN scenario.d = {"b"}
    /\ scenario.key = "a"
    /\ ~DictContains(heap, Receiver, "a")
    /\ DictGet(heap, Result, "a") = Just(scenario.x)

-----------------------------------------------------------------------------
(* Intersection *)

\* the protocols named by the arguments, at any depth
RECURSIVE ProtocolsIn(_)
ProtocolsIn(args) ==
    UNION {IF args[i].v = "Intersection" THEN ProtocolsIn(args[i].items)
           ELSE IF args[i].v = "Protocol" THEN {args[i]} ELSE {} : i \in DOMAIN args}

RECURSIVE Names(_, _)
Names(args, kind) ==
    \E i \in DOMAIN args :
        \/ args[i].v = kind /\ ~IsObject(args[i])
        \/ args[i].v = "Intersection" /\ Names(args[i].items, kind)

\* two results of the type checker stand for the same type
SameType(a, b) ==
    /\ a.o = b.o
    /\ a.o = "type" =>
          IF a.value.v = "Intersection" /\ b.value.v = "Intersection"
          THEN {a.value.items[i] : i \in DOMAIN a.value.items}
                  = {b.value.items[i] : i \in DOMAIN b.value.items}
          ELSE a.value = b.value

-----------------------------------------------------------------------------
(* and_then and map over every kind of node *)

\* an outcome without the identity of the handle a run was given
Anonymous(outcome) ==
    IF outcome.value.v = "handle" THEN [outcome EXCEPT !.value = Handle(0)] ELSE outcome

\* C26: and_then and map behave the same whatever kind of node is the left
\* operand: if the node's outcome is success v then node.and_then(f) has the
\* outcome of f(v) and node.map(g) succeeds with g(v), and if its outcome is
\* failure r both fail with r; in particular from_awaitable(a).and_then(f)
\* behaves as success(v).and_then(f) when a resolves to v.
C26_UniformComposition ==
    (scenario.family = "uniform" /\ AllDone) =>
        LET alone == outcomes[1] IN
        IF alone.o = "return"
        THEN /\ Anonymous(outcomes[2])
                   = Anonymous(CallOutcome(UserCall(scenario.k, alone.value).effect))
             /\ Anonymous(outcomes[3]) = Anonymous([o |-> "return", value |-> Inc(alone.value)])
        ELSE /\ outcomes[2] = alone
             /\ outcomes[3] = alone

\* C26 for every kind of node but from_awaitable
C26_UniformButFromAwaitable ==
    scenario.base.t # "FromAwaitable" => C26_UniformComposition

-----------------------------------------------------------------------------
(* sequence as a value that is run again *)

\* what a run of sequence(es) yields: the tuple of the values in positional
\* order, or the reason of the first effect that fails
Collected(es) ==
    IF Failing(es) = {}
    THEN [o |-> "return", value |-> Tuple([i \in DOMAIN es |-> es[i].fn.val])]
    ELSE [o |-> "raise_RuntimeError", value |-> es[FirstFailing(es)].fn.val]

\* C27: an effect built by sequence(effects) is an immutable value that can
\* be run any number of times: every run yields exactly the tuple of the
\* values produced in that run, in positional order and with one entry per
\* effect; nothing from an earlier run of the same effect value appears in
\* the result.
C27_SequenceRunsAgain ==
    scenario.family = "combine" =>
        \A r \in DOMAIN outcomes : outcomes[r] = Collected(scenario.es)

\* C27 for the Sequence node alone
C27_SequenceNodeRunsAgain ==
    (scenario.family = "combine" /\ scenario.ctor = "Sequence") => C27_SequenceRunsAgain

-----------------------------------------------------------------------------
(* sequence_async: every effect runs to its end *)

\* position i ended before position j did
EndedBefore(i, j) ==
    \E a \in Events("end", PosName[i]) : \E b \in Events("end", PosName[j]) : a < b

\* C28: sequence_async(effects) starts every one of its effects and lets
\* each reach a terminal outcome even when another of them fails; the
\* result tuple is in positional order regardless of completion order, and
\* when several effects fail the failure reported is that of the lowest
\* position, not of the one that failed first in time.
C28_GatherRunsAll ==
    scenario.family = "gather" =>
        /\ \A i \in DOMAIN scenario.es : Count("start", PosName[i]) <= 1
        /\ AllDone =>
              /\ \A i \in DOMAIN scenario.es : Started(i) /\ Ended(i)
              /\ outcomes[1] = Collected(scenario.es)

C28_Witness ==
    /\ scenario.family = "gather"
    /\ AllDone
    /\ Len(scenario.es) = MaxLen
    /\ Failing(scenario.es) = {2, 3}
    /\ EndedBefore(3, 2) /\ EndedBefore(2, 1)
    /\ outcomes[1] = [o |-> "raise_RuntimeError", value |-> Str(ErrName[2])]

C28_WitnessOrder ==
    /\ scenario.family = "gather"
    /\ AllDone
    /\ Len(scenario.es) = MaxLen
    /\ Failing(scenario.es) = {}
    /\ EndedBefore(3, 2) /\ EndedBefore(2, 1)
    /\ outcomes[1] = [o |-> "return", value |-> Tuple(<<IntV(1), IntV(2), IntV(3)>>)]

-----------------------------------------------------------------------------
(* Claim C29 *)

\* the run invocation in which event i happened
EventRun(i) == 1 + Cardinality({j \in 1..i : log[j].ev = "run_end"})
PoolsOf(kind, r) == {p \in DOMAIN pools : pools[p].kind = kind /\ pools[p].run = r}
Dispatched(kind) == \E i \in DOMAIN scenario.es : scenario.es[i].pool = kind

\* C29: in each run invocation at most one thread pool and at most one
\* process pool is made, each at the first dispatch of its kind in that run
\* and none when the run has no such dispatch, also when the dispatches are
\* issued concurrently under sequence_async; every pool made is registered in
\* the exit scope of its run, is shut when the run has ended, and takes no
\* dispatch of another run.
C29_PoolsPerRun ==
    scenario.family = "pool" =>
        /\ \A r \in 1..Len(scenario.runs) : \A kind \in DOMAIN env :
              /\ Cardinality(PoolsOf(kind, r)) <= 1
              /\ r < runIdx =>
                    Cardinality(PoolsOf(kind, r)) = (IF Dispatched(kind) THEN 1 ELSE 0)
        /\ \A p \in DOMAIN pools :
              /\ \E i \in DOMAIN log :
                    /\ log[i] = Event("pool", pools[p].kind, IntV(p))
                    /\ EventRun(i) = pools[p].run
                    /\ i < Len(log)
                    /\ log[i + 1] = Event("submit", pools[p].kind, IntV(p))
                    /\ \A j \in 1..(i - 1) :
                          log[j].ev = "submit" /\ log[j].name = pools[p].kind
                              => EventRun(j) < EventRun(i)
              /\ pools[p].open =>
                    /\ pools[p].run = runIdx
                    /\ \E i \in DOMAIN exitStack : exitStack[i] = pools[p].kind
              /\ pools[p].run < runIdx => ~pools[p].open
        /\ \A i \in DOMAIN log :
              log[i].ev = "submit" =>
                  /\ log[i].arg.n \in DOMAIN pools
                  /\ pools[log[i].arg.n].kind = log[i].name
                  /\ pools[log[i].arg.n].run = EventRun(i)
                  /\ \A j \in 1..i : log[j] # Event("shutdown", log[i].name, log[i].arg)

\* Both runs of a sequence_async of two thread-bound leaves have ended: the
\* two dispatches of each run were issued before either leaf returned, and
\* two pools were made in all, one in each run.
C29_Witness ==
    /\ scenario.family = "pool"
    /\ scenario.runs[1].t = "SequenceAsync"
    /\ Len(scenario.es) = 2
    /\ scenario.es[1].pool = "thread" /\ scenario.es[2].pool = "thread"
    /\ AllDone
    /\ Len(pools) = 2
    /\ pools[1].run = 1 /\ pools[2].run = 2
    /\ \A p \in DOMAIN pools : ~pools[p].open
    /\ \E i, j \in DOMAIN log :
          /\ i < j
          /\ log[i].ev = "submit" /\ log[j].ev = "submit"
          /\ log[i].arg = log[j].arg
          /\ \A h \in i..j : log[h].ev # "end"

-----------------------------------------------------------------------------
(* Claim C30 *)

IsRegistered(e) == e.ev \in {"entered", "pool"}
IsTornDown(e) == e.ev \in {"exit", "shutdown"}
Registered == SelectSeq(log, IsRegistered)
TornDown == SelectSeq(log, IsTornDown)

\* C30: when a run ends, by success, by declared failure or by an uncaught
\* native exception, everything that was registered in its exit scope during
\* the run (the Resource handle, the thread pool, the process pool) has been
\* torn down, in the reverse of the order in which it was registered.
C30_TeardownReversed ==
    scenario.family = "scope" =>
        /\ Len(TornDown) <= Len(Registered)
        /\ \A i \in DOMAIN TornDown :
              /\ TornDown[i].name = Registered[Len(Registered) + 1 - i].name
              /\ TornDown[i].arg = Registered[Len(Registered) + 1 - i].arg
        /\ AllDone =>
              /\ Len(outcomes) = 1
              /\ Len(TornDown) = Len(Registered)
              /\ Len(Registered) = Len(scenario.es)
              /\ resource["res"] = NoneV
              /\ \A p \in DOMAIN pools : ~pools[p].open

\* A run that registered the thread pool, then the Resource handle, then the
\* process pool ended by an uncaught native exception, and all three were
\* torn down.
C30_Witness ==
    /\ scenario.family = "scope"
    /\ AllDone
    /\ outcomes = <<[o |-> "raise", value |-> Exc("tail")]>>
    /\ Len(Registered) = 3
    /\ Registered[1].name = "thread" /\ Registered[2].name = "res"
    /\ Registered[3].name = "process"
    /\ Len(TornDown) = 3
    /\ TornDown[1].name = "process" /\ TornDown[3].name = "thread"

====
